---- MODULE Spec2Model ----
(***************************************************************************)
(* A state-machine model of the PL evaluator of dianpeng/Moons             *)
(* (src/pl/eval.go): the value stack and the call frames carved out of it, *)
(* the interpreter loop runP, exception unwinding, the rule list runner,   *)
(* the module entry points and the event queue with its drain, script      *)
(* closures and their upvalues, the callbacks of intrinsics (runSFunc,     *)
(* runNFunc), script iterators, and the session and global stores.         *)
(*                                                                         *)
(* Granularity.  One action per bytecode instruction executed by runP,     *)
(* one per Go-level step around it (entering an entry point, starting a    *)
(* rule, handling runP's result, the deferred drainEventQueue, one turn of *)
(* the drain loop, the host's OnEventError).                               *)
(*                                                                         *)
(* Programs.  The compiled bytecode is an input of the evaluator.  The     *)
(* model does not fix it: the instruction found at a pc is chosen when     *)
(* the pc is first executed, among the instructions whose operands the     *)
(* stack holds (the compiler never emits an instruction that pops below    *)
(* the frame or below the stack size of an enclosing try).  Jumps go       *)
(* forward, so pc grows within an activation and every behaviour is the    *)
(* run of some module.  Go indices (0-based) are kept as in the source;    *)
(* At(s, i) reads Go's s[i].                                               *)
(*                                                                         *)
(* Instructions modelled: bcLoadInt, bcLoadStr, bcLoadTrue, bcLoadFalse,   *)
(* bcLoadNull, bcDiv, bcEq, bcNe, bcPop, bcNewList, bcPushException,       *)
(* bcPopException, bcLoadException, bcSCall, bcVCall, bcICall, bcReturn,   *)
(* bcHalt, bcNextRule, bcEmit, bcReserveLocal, bcLoadLocal, bcStoreLocal,  *)
(* bcNewClosure, bcLoadUpvalue, bcStoreUpvalue, bcSetSession,              *)
(* bcLoadSession, bcStoreSession, bcSetGlobal, bcLoadGlobal,               *)
(* bcStoreGlobal, bcLoadIterator, bcSetUpIterator, bcNextIterator,         *)
(* bcYield, bcConfigCommand, bcConfigCommandWithAttr, bcAnd, bcOr.         *)
(*                                                                         *)
(* Library.  The query functions avg, count and select of mod_query.go     *)
(* and the pair iterator of obj_pair.go are operators over lists of        *)
(* values, applied by the host calls of SpecQ; the loop of q::slice is     *)
(* followed turn by turn under SpecSl.                                     *)
(*                                                                         *)
(* Hosts.  The redis service's command handler (serviceHandler.onEvent)    *)
(* and handler pool (servicePool) and the http library's ReadableStream    *)
(* are modelled apart from the evaluator, with their objects in heap: the  *)
(* handler's module under SpecSv, the pool and its goroutines under        *)
(* SpecPl, the stream and its host under SpecRs.  Under SpecGl heap holds  *)
(* the position of a second evaluator that shares the module's global      *)
(* store with the first.                                                   *)
(*                                                                         *)
(* Specifications.  Spec explores the interpreter (calls, errors, handlers *)
(* and unwinding) under Eval; SpecUw does so with two handlers in a frame  *)
(* and with native functions and methods; SpecBt with deep recursion;      *)
(* SpecOp explores the comparison operators; SpecEv the entry points, the  *)
(* rule list runner and the event queue, with the host's EmitEvent and     *)
(* OnEventError; SpecSc is SpecEv's Eval with the history of the call      *)
(* recorded in trace, and SpecCf the same for EvalConfig and its config    *)
(* commands; SpecCl explores locals, closures and the callbacks of an      *)
(* intrinsic; SpecRe handlers and recursion in called-back closures and    *)
(* in generators; SpecSt the session and global stores; SpecIt script      *)
(* iterators; SpecQ the query functions and the pair iterator; SpecCa the   *)
(* calls of script, native and method callees with 0 and 1 arguments;      *)
(* SpecIy generators that halt or call a function that yields, and rules   *)
(* that yield; SpecJc the short-circuit jumps.  The                        *)
(* variables carrying history (last, trace, dispatched, nemit and the      *)
(* fields of ctl marked history) are read by no guard but the bound on     *)
(* nemit.                                                                  *)
(***************************************************************************)
EXTENDS Integers, Sequences, FiniteSets, TLC

VARIABLES
  Stack,          \* Evaluator.Stack
  Session,        \* Evaluator.Session
  globalVar,      \* Module.global.globalVar
  curframe,       \* Evaluator.curframe
  curexcep,       \* Evaluator.curexcep
  eventQ,         \* Evaluator.eventQ (the default in-memory queue)
  inEventQueue,   \* Evaluator.inEventQueue
  pc,             \* runP's local pc
  prog,           \* runP's local prog
  rr,             \* the runresult runP returned, NoRR while it runs
  ctl,            \* the Go call stack above the host: entry points and drains
  last,           \* what the last entry point returned to the host
  trace,          \* history: what the current host call has done so far,
                  \* recorded when trace.on
  dispatched,     \* history: ids of the events handed to EvalDeferred
  nemit,          \* history: number of events enqueued (the next event id)
  heap            \* the script closures and script iterators allocated:
                  \* heap[id] is the scriptFunc or scriptIter the values of
                  \* that id point to

vars == <<Stack, Session, globalVar, curframe, curexcep, eventQ, inEventQueue,
          pc, prog, rr, ctl, last, trace, dispatched, nemit, heap>>

vmvars == <<Stack, curframe, curexcep, pc, prog, rr>>

-----------------------------------------------------------------------------
(* Bounds of the exploration *)

\* a list given to a query function has at most MaxLen elements, and
\* q::select at most MaxSel indices
MaxLen == 3
MaxSel == 2
\* a pair iterator is called at most MaxCalls times
MaxCalls == 5
\* script function F calls itself at most to this depth of frames
MaxDepth == 11
\* a closure calls itself while fewer than MaxNest frames are on the stack
MaxNest == 4

\* q::slice is followed for at most MaxOut elements of its result, more than
\* any slice of a list of the model holds
MaxOut == 5
\* a service pool caches up to MaxPool handlers, and the goroutines of the
\* service create at most MaxHandlers handlers
MaxPool == 3
MaxHandlers == 4
\* the host makes at most MaxStreams readers for a ReadableStream
MaxStreams == 2
\* a program has instructions at pc 0..MaxPc
MaxPc == 4
\* operands a frame holds above its frame marker
MaxOperand == 2
\* events enqueued in one behaviour
MaxEmit == 3
\* closures allocated in one behaviour
MaxObj == 2
\* calls back into the evaluator one intrinsic call makes
MaxCb == 2
\* slots of the session and of the global store
MaxStore == 2

-----------------------------------------------------------------------------
(* Constants of the program *)

ftypeTop == 0
ftypeScript == 1
ftypeIntrinsic == 2
ftypeRule == 3
ftypeMethod == 4
ftypeSFunc == 5
ftypeNFunc == 6
ftypeSIter == 7

rstateInterrupt == 0
rstateDone == 1
rstateYield == 2
rstateNextRule == 3

EventContextContinue == 0
EventContextPuase == 1
EventContextStopAndClear == 2

-----------------------------------------------------------------------------
(* Values *)

\* a script closure value points to the scriptFunc heap[id]
newValSFunc(id) == [t |-> "closure", ct |-> "script", id |-> id]

newValNFunc == [t |-> "closure", ct |-> "native"]

newValMFunc == [t |-> "closure", ct |-> "method"]

\* a list, whatever it holds
NewValList == [t |-> "list"]

NewValNull == [t |-> "null"]
NewValInt64(n) == [t |-> "int", i |-> n]
NewValStr(s) == [t |-> "str", s |-> s]
NewValBool(b) == [t |-> "bool", b |-> b]
\* a real is the quotient num / den of two integers, den >= 0; 0 / 0 is NaN
NewValReal(num, den) == [t |-> "real", num |-> num, den |-> den]
newValFrame(ff) == [t |-> "frame", f |-> ff]

\* Go's nil for *program, Closure and error
NilProg == "nil"
NilClosure == [ct |-> "nil"]
NoErr == [msg |-> "nil"]

\* what a native entry (an intrinsic, a native function, a method) returns
IntrinsicErrs == {NoErr, [msg |-> "intrinsic failed"]}

At(s, i) == s[i + 1]

-----------------------------------------------------------------------------
(* The module under evaluation: an input.  Event "e" has two rules,        *)
(* "child" has one, "c" has one, any other name has none; one config, one  *)
(* session and one global program.  The function table holds, at index 0,  *)
(* the script function F of no parameter; at index 2, the function f of no *)
(* parameter and one local variable x; at index 1, the function g of one   *)
(* parameter, defined inside f, which captures x as its only upvalue.      *)
(* Rule R, of event "c", is the rule that uses f and g.  At index 3 is the  *)
(* iterator program gen, of no parameter; rule C, of event "i", is its     *)
(* consumer.                                                               *)

EventNames == {"e", "child", "none"}

findEvent(name) ==
  CASE name = "e" -> <<"A", "B">>
    [] name = "child" -> <<"K">>
    [] name = "c" -> <<"R">>
    [] name = "i" -> <<"C">>
    [] OTHER -> <<>>

ModuleConfig == "cfg"
ModuleSession == <<"S">>
ModuleGlobal == <<"G">>

\* module.fn[idx], NilProg when idx is no index of the table
ModuleFn(idx) ==
  CASE idx = 0 -> "F"
    [] idx = 1 -> "g"
    [] idx = 2 -> "f"
    [] idx = 3 -> "gen"
    [] OTHER -> NilProg

\* program.progtype: a function or an iterator
progtype(p) == IF p = "gen" THEN "progIter" ELSE "progFunc"

argSize(p) == IF p = "g" THEN 1 ELSE 0

\* the local variables a program reserves when it is entered
localSize(p) == IF p = "f" THEN 1 ELSE 0

\* the upvalue descriptors of a program; the locals of a frame of farg
\* arguments are indexed from farg + 1, the index farg being the slot of
\* the frame marker
upvalue(p) == IF p = "g" THEN <<[onStack |-> TRUE, index |-> 1]>> ELSE <<>>

-----------------------------------------------------------------------------
(* Stack manipulation *)

push(s, v) == Append(s, v)
popN(s, cnt) == SubSeq(s, 1, Len(s) - cnt)
popTo(s, size) == SubSeq(s, 1, size)
topN(s, where) == s[Len(s) - where]
top0(s) == topN(s, 0)
top1(s) == topN(s, 1)

-----------------------------------------------------------------------------
(* Frames *)

markTop ==
  [ftype |-> ftypeTop, farg |-> 0, pc |-> 0, framep |-> 0, prog |-> NilProg,
   excep |-> <<>>, closure |-> NilClosure]

isTop(ff) == ff.ftype = ftypeTop

isScript(ff) == ff.prog # NilProg /\ ff.ftype # ftypeSIter

curExcep_m(cf) == IF Len(cf.excep) # 0 THEN cf.excep[1] ELSE [handlerPc |-> -1, stackSize |-> -1]

curExcep(cf) == IF Len(cf.excep) # 0 THEN cf.excep[Len(cf.excep)] ELSE [handlerPc |-> -1, stackSize |-> -1]

pushExcep(cf, hpc, stackSize) ==
  [cf EXCEPT !.excep = Append(@, [handlerPc |-> hpc, stackSize |-> stackSize])]

popExcep(cf) == [cf EXCEPT !.excep = SubSeq(@, 1, Len(@) - 1)]

prevframepos(cf) == cf.framep + cf.farg + 1

prevfuncframe(s, cf) == At(s, prevframepos(cf)).f

\* returns the stack, the current frame and (pc, prog) of the frame popped to
popfuncframe(s, cf, prev) ==
  [Stack |-> popTo(s, cf.framep), curframe |-> prev, pc |-> prev.pc - 1, prog |-> prev.prog]

newfuncframe(ftype, fpc, fprog, framep, farg, excep, closure) ==
  [ftype |-> ftype, farg |-> farg, pc |-> fpc, framep |-> framep, prog |-> fprog,
   excep |-> excep, closure |-> closure]

prologue_m(s, cf, ftype, alen, fprog, closure) ==
  LET newFV == newValFrame(newfuncframe(cf.ftype, cf.pc + 1, cf.prog, cf.framep,
                                        cf.farg, <<>>, cf.closure))
      s1 == push(s, newFV)
      fp == Len(s1) - 2 - alen
  IN [Stack |-> s1,
      curframe |-> [ftype |-> ftype, farg |-> alen, pc |-> 0, framep |-> fp,
                    prog |-> fprog, excep |-> <<>>, closure |-> closure]]

prologue(s, cf, ftype, alen, fprog, closure) ==
  LET newFV == newValFrame(newfuncframe(cf.ftype, cf.pc + 1, cf.prog, cf.framep,
                                        cf.farg, cf.excep, cf.closure))
      s1 == push(s, newFV)
      fp == Len(s1) - 2 - alen
  IN [Stack |-> s1,
      curframe |-> [ftype |-> ftype, farg |-> alen, pc |-> 0, framep |-> fp,
                    prog |-> fprog, excep |-> <<>>, closure |-> closure]]

epilogue(s, cf, v, isMethod) ==
  LET r == popfuncframe(s, cf, prevfuncframe(s, cf))
      s1 == IF isMethod THEN popN(r.Stack, 1) ELSE r.Stack
  IN [r EXCEPT !.Stack = push(s1, v)]

-----------------------------------------------------------------------------
(* Run results *)

NoRR == [rstate |-> -1]
rrErr(p, at, e) == [prog |-> p, pc |-> at, e |-> e, rstate |-> rstateInterrupt]
rrNextRule(at) == [prog |-> NilProg, pc |-> at, e |-> NoErr, rstate |-> rstateNextRule]
rrDone(at) == [prog |-> NilProg, pc |-> at, e |-> NoErr, rstate |-> rstateDone]
rrYield(at) == [prog |-> NilProg, pc |-> at, e |-> NoErr, rstate |-> rstateYield]

isDone(r) == r.rstate = rstateDone
isNextRule(r) == r.rstate = rstateNextRule

-----------------------------------------------------------------------------
(* Binary operations.  The programs of the model load no real constant,   *)
(* so the real-number branches of doBin are not reachable.                 *)

doBin(lhs, rhs, op) ==
  CASE op = "bcDiv" ->
         IF lhs.t = rhs.t /\ lhs.t = "int"
         THEN IF rhs.i = 0
              THEN [v |-> NewValNull, e |-> [msg |-> "divide zero"]]
              ELSE [v |-> NewValInt64(lhs.i \div rhs.i), e |-> NoErr]
         ELSE [v |-> NewValNull, e |-> [msg |-> "invalid operand for *"]]
    [] op = "bcEq" ->
         IF lhs.t = rhs.t /\ lhs.t = "int"
         THEN [v |-> NewValBool(lhs.i = rhs.i), e |-> NoErr]
         ELSE IF lhs.t = rhs.t /\ lhs.t = "str"
         THEN [v |-> NewValBool(lhs.s = rhs.s), e |-> NoErr]
         ELSE [v |-> NewValNull, e |-> [msg |-> "invalid operand for =="]]
    [] op = "bcNe" ->
         IF lhs.t = rhs.t /\ lhs.t = "int"
         THEN [v |-> NewValBool(lhs.i # rhs.i), e |-> NoErr]
         ELSE IF lhs.t = rhs.t /\ lhs.t = "str"
         THEN [v |-> NewValBool(lhs.s # rhs.s), e |-> NoErr]
         ELSE [v |-> NewValNull, e |-> [msg |-> "invalid operand for !="]]
    [] OTHER -> [v |-> NewValNull, e |-> [msg |-> "unknown op"]]

-----------------------------------------------------------------------------
(* Event queue.  EventQueue and its default implementation are not in the  *)
(* sources at hand; they follow the specification: a FIFO, in-memory list  *)
(* of (name, context).  The id is a history field: it numbers the events   *)
(* in the order they were enqueued.                                        *)

OnEvent(q, name, context, id) == Append(q, [name |-> name, context |-> context, id |-> id])

Clear(q) == <<>>

\* emitEvent, were it to put the event in front of the queue
emitEvent_m(q, name, context, id) == <<[name |-> name, context |-> context, id |-> id]>> \o q

emitEvent(q, name, context, id) == OnEvent(q, name, context, id)

-----------------------------------------------------------------------------
(* What the compiler guarantees of the instruction at pc *)

\* Go index of the first slot above the frame marker of cf and the locals
\* its program reserves
Base(cf) == prevframepos(cf) + 1 + localSize(cf.prog)

\* an instruction never pops below the frame, nor below an enclosing try
Floor(cf) == IF Len(cf.excep) # 0 /\ curExcep(cf).stackSize > Base(cf) THEN curExcep(cf).stackSize ELSE Base(cf)

Operands == Len(Stack) - Floor(curframe)

CanPush == Len(Stack) - Base(curframe) < MaxOperand

\* frames above the rule frame
FramesIn(s) == Cardinality({i \in 1..Len(s) : s[i].t = "frame"}) - 1

Depth == FramesIn(Stack)

\* runP is at an instruction: it was entered by runRuleImpl, by runSFunc or
\* by runSIterRest, and has not returned
Running ==
  /\ Len(ctl) > 0
  /\ ctl[Len(ctl)].k \in {"entry", "sfunc", "siter"}
  /\ ctl[Len(ctl)].at = "run"
  /\ rr = NoRR
  /\ prog # NilProg

qvars == <<eventQ, nemit, trace>>

\* the history with x recorded
Note(x) == IF trace.on THEN [trace EXCEPT !.log = Append(@, x)] ELSE trace
othervars == <<Session, globalVar, inEventQueue, ctl, last, dispatched, heap>>

-----------------------------------------------------------------------------
(* runP: one action per instruction *)

bcLoadInt(n) ==
  /\ Running /\ pc < MaxPc /\ CanPush
  /\ Stack' = push(Stack, NewValInt64(n))
  /\ pc' = pc + 1
  /\ UNCHANGED <<curframe, curexcep, prog, rr, qvars, othervars>>

bcLoadStr(s) ==
  /\ Running /\ pc < MaxPc /\ CanPush
  /\ Stack' = push(Stack, NewValStr(s))
  /\ pc' = pc + 1
  /\ UNCHANGED <<curframe, curexcep, prog, rr, qvars, othervars>>

\* Val.ToBoolean of a bool is the bool
ToBoolean(v) == v = NewValBool(TRUE)

bcOr(arg) ==
  /\ Running /\ pc < MaxPc /\ Operands >= 1
  /\ LET cond == top0(Stack)
     IN IF ToBoolean(cond)
        THEN /\ pc' = (arg - 1) + 1
             /\ UNCHANGED Stack
        ELSE /\ Stack' = popN(Stack, 1)
             /\ pc' = pc + 1
  /\ UNCHANGED <<curframe, curexcep, prog, rr, qvars, othervars>>

bcAnd_m(arg) ==
  /\ Running /\ pc < MaxPc /\ Operands >= 1
  /\ LET cond == top0(Stack)
     IN IF ToBoolean(cond)
        THEN /\ pc' = (arg - 1) + 1
             /\ UNCHANGED Stack
        ELSE /\ Stack' = popN(Stack, 1)
             /\ pc' = pc + 1
  /\ UNCHANGED <<curframe, curexcep, prog, rr, qvars, othervars>>

bcAnd(arg) ==
  /\ Running /\ pc < MaxPc /\ Operands >= 1
  /\ LET cond == top0(Stack)
     IN IF ~ToBoolean(cond)
        THEN /\ pc' = (arg - 1) + 1
             /\ UNCHANGED Stack
        ELSE /\ Stack' = popN(Stack, 1)
             /\ pc' = pc + 1
  /\ UNCHANGED <<curframe, curexcep, prog, rr, qvars, othervars>>

\* bcLoadTrue, bcLoadFalse, bcLoadNull
bcLoadConst(v) ==
  /\ Running /\ pc < MaxPc /\ CanPush
  /\ Stack' = push(Stack, v)
  /\ pc' = pc + 1
  /\ UNCHANGED <<curframe, curexcep, prog, rr, qvars, othervars>>

\* the case of the binary operators, for bcEq and bcNe
bcCmp(op) ==
  /\ Running /\ Operands >= 2
  /\ LET lhs == top1(Stack)
         rhs == top0(Stack)
         s1 == popN(Stack, 2)
         r == doBin(lhs, rhs, op)
     IN IF r.e # NoErr
        THEN /\ Stack' = s1
             /\ rr' = rrErr(prog, pc, r.e)
             /\ UNCHANGED pc
        ELSE /\ pc < MaxPc
             /\ Stack' = push(s1, r.v)
             /\ pc' = pc + 1
             /\ UNCHANGED rr
  /\ UNCHANGED <<curframe, curexcep, prog, qvars, othervars>>

\* configCommand and configCommandWithAttr of pcnt arguments: the compiler
\* has pushed the attribute, if any, then the name, a string, then the
\* arguments.  err is what the host's ConfigCommand returns; the call is
\* recorded in trace
bcConfigCommand(opcode, pcnt, err) ==
  /\ Running
  /\ Operands >= pcnt + 1 + (IF opcode = "bcConfigCommandWithAttr" THEN 1 ELSE 0)
  /\ topN(Stack, pcnt).t = "str"
  /\ LET name == topN(Stack, pcnt)
         withAttr == opcode = "bcConfigPropertySetWithAttr"
         popSize == IF withAttr THEN pcnt + 2 ELSE pcnt + 1
         attr == IF withAttr THEN topN(Stack, pcnt + 1) ELSE NewValNull
         arg == SubSeq(Stack, Len(Stack) - pcnt + 1, Len(Stack))
     IN /\ trace' = Note([op |-> "ConfigCommand", name |-> name.s, arg |-> arg, attr |-> attr])
        /\ IF err # NoErr
           THEN /\ rr' = rrErr(prog, pc, err)
                /\ UNCHANGED <<Stack, pc>>
           ELSE /\ pc < MaxPc
                /\ Stack' = popN(Stack, popSize)
                /\ pc' = pc + 1
                /\ UNCHANGED rr
  /\ UNCHANGED <<curframe, curexcep, prog, eventQ, nemit, othervars>>

bcDiv ==
  /\ Running /\ Operands >= 2
  /\ LET lhs == top1(Stack)
         rhs == top0(Stack)
         s1 == popN(Stack, 2)
         r == doBin(lhs, rhs, "bcDiv")
     IN IF r.e # NoErr
        THEN /\ Stack' = s1
             /\ rr' = rrErr(prog, pc, r.e)
             /\ UNCHANGED pc
        ELSE /\ pc < MaxPc
             /\ Stack' = push(s1, r.v)
             /\ pc' = pc + 1
             /\ UNCHANGED rr
  /\ UNCHANGED <<curframe, curexcep, prog, qvars, othervars>>

bcLoadSession(i) ==
  /\ Running
  /\ IF Len(Session) <= i
     THEN /\ rr' = rrErr(prog, pc, [msg |-> "session variable is not existed"])
          /\ UNCHANGED <<Stack, pc>>
     ELSE /\ pc < MaxPc /\ CanPush
          /\ Stack' = push(Stack, At(Session, i))
          /\ pc' = pc + 1
          /\ UNCHANGED rr
  /\ UNCHANGED <<curframe, curexcep, prog, qvars, othervars>>

bcPushException(h) ==
  /\ Running /\ pc < MaxPc
  /\ curframe' = pushExcep(curframe, h, Len(Stack))
  /\ pc' = pc + 1
  /\ UNCHANGED <<Stack, curexcep, prog, rr, qvars, othervars>>

bcPopException(r) ==
  /\ Running /\ pc < MaxPc /\ Len(curframe.excep) # 0
  /\ curframe' = popExcep(curframe)
  /\ pc' = r
  /\ UNCHANGED <<Stack, curexcep, prog, rr, qvars, othervars>>

bcLoadException ==
  /\ Running /\ pc < MaxPc /\ CanPush
  /\ Stack' = push(Stack, curexcep)
  /\ pc' = pc + 1
  /\ UNCHANGED <<curframe, curexcep, prog, rr, qvars, othervars>>

bcSCall(n) ==
  /\ Running /\ pc < MaxPc /\ Operands >= n + 1
  /\ topN(Stack, n).t = "int"
  /\ ModuleFn(topN(Stack, n).i) # NilProg
  /\ LET callee == ModuleFn(topN(Stack, n).i)
         r == prologue(Stack, [curframe EXCEPT !.pc = pc], ftypeScript, n, callee, NilClosure)
     IN /\ Stack' = r.Stack
        /\ curframe' = r.curframe
        /\ IF n # argSize(callee)
           THEN /\ rr' = rrErr(callee, pc, [msg |-> "script function call, argument number mismatch"])
                /\ UNCHANGED <<pc, prog>>
           ELSE /\ pc' = 0
                /\ prog' = callee
                /\ UNCHANGED rr
  /\ UNCHANGED <<curexcep, qvars, othervars>>

\* ret, err: what the intrinsic's entry returns
bcICall(n, ret, err) ==
  /\ Running /\ pc < MaxPc /\ Operands >= n + 1
  /\ topN(Stack, n).t = "int"
  /\ topN(Stack, n).i >= 0
  /\ LET r == prologue(Stack, [curframe EXCEPT !.pc = pc], ftypeIntrinsic, n, NilProg, NilClosure)
         ep == epilogue(r.Stack, r.curframe, ret, FALSE)
     IN IF err # NoErr
        THEN /\ Stack' = r.Stack
             /\ curframe' = r.curframe
             /\ rr' = rrErr(prog, pc, err)
             /\ UNCHANGED <<pc, prog>>
        ELSE /\ Stack' = ep.Stack
             /\ curframe' = ep.curframe
             /\ pc' = ep.pc + 1
             /\ prog' = ep.prog
             /\ UNCHANGED rr
  /\ UNCHANGED <<curexcep, qvars, othervars>>

bcReturn ==
  /\ Running /\ Len(Stack) > Base(curframe)
  /\ LET ftype == curframe.ftype
         rv == top0(Stack)
         ep == epilogue(Stack, curframe, rv, FALSE)
     IN /\ Stack' = ep.Stack
        /\ curframe' = ep.curframe
        /\ prog' = ep.prog
        /\ IF ep.prog = NilProg \/ ftype = ftypeSIter
           THEN /\ rr' = rrDone(ep.pc)
                /\ pc' = ep.pc
                /\ trace' = Note([op |-> "return"])
           ELSE /\ pc' = ep.pc + 1
                /\ UNCHANGED <<rr, trace>>
  /\ UNCHANGED <<curexcep, eventQ, nemit, othervars>>

\* halt and nextRule are statements: no operand is pending
bcHalt ==
  /\ Running /\ Len(Stack) = Base(curframe)
  /\ Stack' = push(Stack, NewValNull)
  /\ rr' = rrDone(pc)
  /\ trace' = Note([op |-> "halt"])
  /\ UNCHANGED <<curframe, curexcep, pc, prog, eventQ, nemit, othervars>>

bcNextRule ==
  /\ Running /\ Len(Stack) = Base(curframe)
  /\ rr' = rrNextRule(pc)
  /\ UNCHANGED <<Stack, curframe, curexcep, pc, prog, qvars, othervars>>

bcEmit ==
  /\ Running /\ pc < MaxPc /\ Operands >= 2 /\ nemit < MaxEmit
  /\ top1(Stack).t = "str"
  /\ LET context == top0(Stack)
         name == top1(Stack)
     IN /\ Stack' = popN(Stack, 2)
        /\ eventQ' = emitEvent(eventQ, name.s, context, nemit + 1)
        /\ nemit' = nemit + 1
        /\ trace' = Note([op |-> "emit", id |-> nemit + 1, name |-> name.s])
  /\ pc' = pc + 1
  /\ UNCHANGED <<curframe, curexcep, prog, rr, othervars>>

-----------------------------------------------------------------------------
(* Session and global variables.  The global store of the module is not in *)
(* the sources at hand; add, StoreGlobal and GetGlobal follow the          *)
(* specification: add appends if the value is of an immutable kind (null,  *)
(* bool, int, real, string), store updates if the index exists and the     *)
(* value is of an immutable kind, and both tell whether they did.          *)

add(g, v) ==
  IF v.t \in {"null", "bool", "int", "real", "str"}
  THEN [ok |-> TRUE, g |-> Append(g, v)]
  ELSE [ok |-> FALSE, g |-> g]

StoreGlobal(g, idx, v) ==
  IF idx >= 0 /\ idx < Len(g) /\ v.t \in {"null", "bool", "int", "real", "str"}
  THEN [ok |-> TRUE, g |-> [g EXCEPT ![idx + 1] = v]]
  ELSE [ok |-> FALSE, g |-> g]

GetGlobal(g, idx) ==
  IF idx >= 0 /\ idx < Len(g)
  THEN [ok |-> TRUE, val |-> At(g, idx)]
  ELSE [ok |-> FALSE, val |-> NewValNull]

bcNewList ==
  /\ Running /\ pc < MaxPc /\ CanPush
  /\ Stack' = push(Stack, NewValList)
  /\ pc' = pc + 1
  /\ UNCHANGED <<curframe, curexcep, prog, rr, qvars, othervars>>

bcSetSession ==
  /\ Running /\ pc < MaxPc /\ Operands >= 1 /\ Len(Session) < MaxStore
  /\ Session' = Append(Session, top0(Stack))
  /\ Stack' = popN(Stack, 1)
  /\ pc' = pc + 1
  /\ UNCHANGED <<curframe, curexcep, prog, rr, qvars, globalVar, inEventQueue, ctl, last, dispatched, heap>>

\* storeSession, were its test of the index off by one
bcStoreSession_m(i) ==
  /\ Running /\ Operands >= 1
  /\ IF Len(Session) < i
     THEN /\ rr' = rrErr(prog, pc, [msg |-> "session variable is not existed"])
          /\ UNCHANGED <<Stack, Session, pc>>
     ELSE /\ pc < MaxPc
          /\ Session' = IF i < Len(Session) THEN [Session EXCEPT ![i + 1] = top0(Stack)] ELSE Session
          /\ Stack' = popN(Stack, 1)
          /\ pc' = pc + 1
          /\ UNCHANGED rr
  /\ UNCHANGED <<curframe, curexcep, prog, qvars, globalVar, inEventQueue, ctl, last, dispatched, heap>>

bcStoreSession(i) ==
  /\ Running /\ Operands >= 1
  /\ IF Len(Session) <= i
     THEN /\ rr' = rrErr(prog, pc, [msg |-> "session variable is not existed"])
          /\ UNCHANGED <<Stack, Session, pc>>
     ELSE /\ pc < MaxPc
          /\ Session' = [Session EXCEPT ![i + 1] = top0(Stack)]
          /\ Stack' = popN(Stack, 1)
          /\ pc' = pc + 1
          /\ UNCHANGED rr
  /\ UNCHANGED <<curframe, curexcep, prog, qvars, globalVar, inEventQueue, ctl, last, dispatched, heap>>

\* setGlobal, were it to take the value whatever add answers
bcSetGlobal_m ==
  /\ Running /\ Operands >= 1 /\ Len(globalVar) < MaxStore
  /\ Stack' = popN(Stack, 1)
  /\ pc < MaxPc
  /\ globalVar' = Append(globalVar, top0(Stack))
  /\ pc' = pc + 1
  /\ UNCHANGED rr
  /\ UNCHANGED <<curframe, curexcep, prog, qvars, Session, inEventQueue, ctl, last, dispatched, heap>>

bcSetGlobal ==
  /\ Running /\ Operands >= 1 /\ Len(globalVar) < MaxStore
  /\ Stack' = popN(Stack, 1)
  /\ LET r == add(globalVar, top0(Stack))
     IN IF ~r.ok
        THEN /\ rr' = rrErr(prog, pc, [msg |-> "global varaible must store immutable type"])
             /\ UNCHANGED <<globalVar, pc>>
        ELSE /\ pc < MaxPc
             /\ globalVar' = r.g
             /\ pc' = pc + 1
             /\ UNCHANGED rr
  /\ UNCHANGED <<curframe, curexcep, prog, qvars, Session, inEventQueue, ctl, last, dispatched, heap>>

bcLoadGlobal(i) ==
  /\ Running
  /\ LET r == GetGlobal(globalVar, i)
     IN IF ~r.ok
        THEN /\ rr' = rrErr(prog, pc, [msg |-> "global variable loading error"])
             /\ UNCHANGED <<Stack, pc>>
        ELSE /\ pc < MaxPc /\ CanPush
             /\ Stack' = push(Stack, r.val)
             /\ pc' = pc + 1
             /\ UNCHANGED rr
  /\ UNCHANGED <<curframe, curexcep, prog, qvars, othervars>>

bcStoreGlobal(i) ==
  /\ Running /\ Operands >= 1
  /\ Stack' = popN(Stack, 1)
  /\ LET r == StoreGlobal(globalVar, i, top0(Stack))
     IN IF ~r.ok
        THEN /\ rr' = rrErr(prog, pc, [msg |-> "global variable storing error"])
             /\ UNCHANGED <<globalVar, pc>>
        ELSE /\ pc < MaxPc
             /\ globalVar' = r.g
             /\ pc' = pc + 1
             /\ UNCHANGED rr
  /\ UNCHANGED <<curframe, curexcep, prog, qvars, Session, inEventQueue, ctl, last, dispatched, heap>>

-----------------------------------------------------------------------------
(* Local variables and closures *)

\* localslot, were it to count from the slot of the callee
localslot_m(cf, arg) == cf.framep + arg

localslot(cf, arg) == cf.framep + 1 + arg

\* the compiler indexes the arguments and the locals of the frame, once
\* they are reserved
IsLocal(s, cf, arg) ==
  /\ arg >= 0 /\ arg # cf.farg
  /\ localslot(cf, arg) < Base(cf)
  /\ Base(cf) <= Len(s)

\* the first instruction of a program that has locals
bcReserveLocal(sz) ==
  /\ Running /\ pc < MaxPc
  /\ pc = 0 /\ sz = localSize(prog) /\ sz > 0
  /\ Stack' = Stack \o [k \in 1..sz |-> NewValNull]
  /\ pc' = pc + 1
  /\ UNCHANGED <<curframe, curexcep, prog, rr, qvars, othervars>>

bcStoreLocal(arg) ==
  /\ Running /\ pc < MaxPc /\ Operands >= 1
  /\ IsLocal(Stack, curframe, arg)
  /\ Stack' = popN([Stack EXCEPT ![localslot(curframe, arg) + 1] = top0(Stack)], 1)
  /\ pc' = pc + 1
  /\ UNCHANGED <<curframe, curexcep, prog, rr, qvars, othervars>>

bcLoadLocal(arg) ==
  /\ Running /\ pc < MaxPc /\ CanPush
  /\ IsLocal(Stack, curframe, arg)
  /\ Stack' = push(Stack, At(Stack, localslot(curframe, arg)))
  /\ pc' = pc + 1
  /\ UNCHANGED <<curframe, curexcep, prog, rr, qvars, othervars>>

\* capture, were a local captured as its slot, to be read when it is used
capture_m(s, cf, uv, h) ==
  IF uv.onStack
  THEN [t |-> "slot", i |-> cf.framep + 1 + uv.index]
  ELSE At(h[cf.closure.id].upvalue, uv.index)

\* the value one upvalue descriptor captures: the local of the frame that
\* creates the closure, or an upvalue of the closure that frame runs
capture(s, cf, uv, h) ==
  IF uv.onStack
  THEN At(s, localslot(cf, uv.index))
  ELSE At(h[cf.closure.id].upvalue, uv.index)

bcNewClosure(idx) ==
  /\ Running
  /\ ModuleFn(idx) # NilProg
  /\ LET fn == ModuleFn(idx)
     IN IF progtype(fn) # "progFunc"
        THEN /\ rr' = rrErr(prog, pc, [msg |-> "value must be function instead of iterator"])
             /\ UNCHANGED <<Stack, pc, heap>>
        ELSE /\ pc < MaxPc /\ CanPush /\ Len(heap) < MaxObj
             /\ \A k \in 1..Len(upvalue(fn)) :
                  IF upvalue(fn)[k].onStack
                  THEN IsLocal(Stack, curframe, upvalue(fn)[k].index)
                  ELSE curframe.closure # NilClosure
             /\ heap' = Append(heap, [prog |-> fn,
                                      upvalue |-> [k \in 1..Len(upvalue(fn)) |->
                                                     capture(Stack, curframe, upvalue(fn)[k], heap)]])
             /\ Stack' = push(Stack, newValSFunc(Len(heap) + 1))
             /\ pc' = pc + 1
             /\ UNCHANGED rr
  /\ UNCHANGED <<curframe, curexcep, prog, qvars, Session, globalVar, inEventQueue, ctl, last, dispatched>>

\* mustSFunc: the instruction is compiled into closures only
bcLoadUpvalue(arg) ==
  /\ Running /\ pc < MaxPc /\ CanPush
  /\ curframe.closure # NilClosure
  /\ arg < Len(heap[curframe.closure.id].upvalue)
  /\ Stack' = push(Stack, At(heap[curframe.closure.id].upvalue, arg))
  /\ pc' = pc + 1
  /\ UNCHANGED <<curframe, curexcep, prog, rr, qvars, othervars>>

\* storeUpvalue, were it to write to a copy of the closure
bcStoreUpvalue_m(arg) ==
  /\ Running /\ pc < MaxPc /\ Operands >= 1
  /\ curframe.closure # NilClosure
  /\ arg < Len(heap[curframe.closure.id].upvalue)
  /\ heap' = heap
  /\ Stack' = popN(Stack, 1)
  /\ pc' = pc + 1
  /\ UNCHANGED <<curframe, curexcep, prog, rr, qvars, Session, globalVar, inEventQueue, ctl, last, dispatched>>

bcStoreUpvalue(arg) ==
  /\ Running /\ pc < MaxPc /\ Operands >= 1
  /\ curframe.closure # NilClosure
  /\ arg < Len(heap[curframe.closure.id].upvalue)
  /\ heap' = [heap EXCEPT ![curframe.closure.id].upvalue[arg + 1] = top0(Stack)]
  /\ Stack' = popN(Stack, 1)
  /\ pc' = pc + 1
  /\ UNCHANGED <<curframe, curexcep, prog, rr, qvars, Session, globalVar, inEventQueue, ctl, last, dispatched>>

\* the call of a value: of the closure kinds, the script closure is modelled
bcVCall(n) ==
  /\ Running /\ Operands >= n + 1
  /\ LET f == topN(Stack, n)
     IN IF f.t = "closure" /\ f.ct = "script"
        THEN /\ pc < MaxPc
             /\ LET callee == heap[f.id].prog
                    r == prologue(Stack, [curframe EXCEPT !.pc = pc], ftypeSFunc, n, callee,
                                  [ct |-> "script", id |-> f.id])
                IN /\ Stack' = r.Stack
                   /\ curframe' = r.curframe
                   /\ IF n # argSize(callee)
                      THEN /\ rr' = rrErr(callee, pc, [msg |-> "script function call, argument number mismatch"])
                           /\ UNCHANGED <<pc, prog>>
                      ELSE /\ pc' = 0
                           /\ prog' = callee
                           /\ UNCHANGED rr
        ELSE IF f.t = "closure" /\ f.ct \in {"native", "method"}
        THEN \E err \in IntrinsicErrs :
               LET r == prologue(Stack, [curframe EXCEPT !.pc = pc],
                                 IF f.ct = "native" THEN ftypeNFunc ELSE ftypeMethod,
                                 n, NilProg, [ct |-> f.ct])
                   ep == epilogue(r.Stack, r.curframe, NewValInt64(0), FALSE)
               IN IF err # NoErr
                  THEN /\ Stack' = r.Stack
                       /\ curframe' = r.curframe
                       /\ rr' = rrErr(NilProg, pc, err)
                       /\ UNCHANGED <<pc, prog>>
                  ELSE /\ pc < MaxPc
                       /\ Stack' = ep.Stack
                       /\ curframe' = ep.curframe
                       /\ pc' = ep.pc + 1
                       /\ prog' = ep.prog
                       /\ UNCHANGED rr
        ELSE /\ rr' = rrErr(prog, pc, [msg |-> "object must be function, but got type"])
             /\ UNCHANGED <<Stack, curframe, pc, prog>>
  /\ UNCHANGED <<curexcep, qvars, othervars>>

-----------------------------------------------------------------------------
(* Exception unwinding *)

\* the breakers the callers of unwindForExcep pass: runRuleImpl stops at the
\* top frame, runSIterRest at the script iterator frame, runSFunc at a frame
\* that runs its closure
breaker(bk, cf) ==
  CASE bk.k = "top" -> isTop(cf)
    [] bk.k = "siter" -> cf.ftype = ftypeSIter
    [] bk.k = "sfunc" -> cf.closure = [ct |-> "script", id |-> bk.id]
    [] OTHER -> FALSE

\* the unwinding, were the handler entered without cutting the stack back
RECURSIVE unwindLoop_m(_, _, _, _)
unwindLoop_m(s, cf, bt, bk) ==
  IF isTop(cf) \/ breaker(bk, cf)
  THEN [ok |-> FALSE, Stack |-> s, curframe |-> cf, bt |-> bt, pc |-> -1, prog |-> NilProg]
  ELSE IF Len(cf.excep) # 0 /\ isScript(cf)
       THEN LET xp == curExcep(cf)
            IN [ok |-> TRUE,
                Stack |-> s,
                curframe |-> popExcep([cf EXCEPT !.pc = xp.handlerPc]),
                bt |-> bt, pc |-> xp.handlerPc, prog |-> cf.prog]
       ELSE LET pframe == prevfuncframe(s, cf)
                r == popfuncframe(s, cf, pframe)
            IN unwindLoop_m(r.Stack, r.curframe,
                            IF ~isTop(pframe) THEN Append(bt, pframe) ELSE bt, bk)

RECURSIVE unwindLoop(_, _, _, _)
unwindLoop(s, cf, bt, bk) ==
  IF isTop(cf) \/ breaker(bk, cf)
  THEN [ok |-> FALSE, Stack |-> s, curframe |-> cf, bt |-> bt, pc |-> -1, prog |-> NilProg]
  ELSE IF Len(cf.excep) # 0 /\ isScript(cf)
       THEN LET xp == curExcep(cf)
            IN [ok |-> TRUE,
                Stack |-> popTo(s, xp.stackSize),
                curframe |-> popExcep([cf EXCEPT !.pc = xp.handlerPc]),
                bt |-> bt, pc |-> xp.handlerPc, prog |-> cf.prog]
       ELSE LET pframe == prevfuncframe(s, cf)
                r == popfuncframe(s, cf, pframe)
            IN unwindLoop(r.Stack, r.curframe,
                          IF ~isTop(pframe) THEN Append(bt, pframe) ELSE bt, bk)

unwindForExcep(s, cf, bk) == unwindLoop(s, cf, <<cf>>, bk)

\* the frame listing of a report: the frames listed and whether the
\* truncation marker follows them
backtrace(max, bt) ==
  [frames |-> IF Len(bt) > max + 1 THEN max + 1 ELSE Len(bt), marker |-> Len(bt) > max]

doErr(bt, p, at, err) ==
  IF p # NilProg
  THEN [msg |-> err.msg, symbol |-> p, pc |-> at, bt |-> backtrace(10, bt)]
  ELSE [msg |-> err.msg, symbol |-> "[native function]"]

-----------------------------------------------------------------------------
(* The Go call stack.  An entry frame is a running entry point: fn its     *)
(* name, list the programs it runs, i the one it is at, event the value    *)
(* passed to the rules, at its position ("start": about to run list[i],    *)
(* "run": inside runRuleImpl, "ret": its result res is computed and its    *)
(* deferred call is next), drain whether its deferred drainEventQueue has  *)
(* been called and what it did, ev the id of the deferred event it         *)
(* evaluates (history),                                                    *)
(* hist the rules it has run and what runRuleImpl returned for each, in    *)
(* order (history), n0 the number of events enqueued before it was         *)
(* entered (history), caught what the last catch of the running rule       *)
(* took off the stack: frames, operands only, or nothing (history).        *)
(* A drain frame is a running drainEventQueue: status its local status,    *)
(* cur the id of the event Drain is at, reported the ids of the events     *)
(* whose failure went to the host's OnEventError (history).                *)
(* An intrinsic frame is the entry of an intrinsic that runP called and    *)
(* that has not returned: pc and prog the locals of the runP that waits    *)
(* for it, arg its arguments, calls the calls back it has made, got what   *)
(* the last of them returned.  An sfunc frame is a running runSFunc: sfunc *)
(* the closure it runs, size the stack size when it was called (history).  *)
(* An siter frame is a running runSIter or resumeSIter: id the iterator    *)
(* it drives, pc and prog the locals of the runP that executes the         *)
(* setUpIterator (op "setup", of n arguments) or nextIterator (op "next"), *)
(* oldStack the stack of the consumer, frame the consumer's frame when it  *)
(* was called (history).                                                   *)
(* A panic frame is a Go panic: the evaluator does nothing more.           *)

NoCatch == "no"

entryFrame(fn, list, event, ev) ==
  [k |-> "entry", fn |-> fn, list |-> list, i |-> 1, event |-> event,
   at |-> IF Len(list) = 0 THEN "ret" ELSE "start",
   res |-> [v |-> NewValNull, err |-> NoErr], drain |-> "none", ev |-> ev, hist |-> <<>>,
   n0 |-> nemit, caught |-> NoCatch]

drainFrame ==
  [k |-> "drain", status |-> EventContextContinue, at |-> "loop", cur |-> 0, reent |-> FALSE,
   reported |-> <<>>]

Top == ctl[Len(ctl)]

setTop(c, fr) == [c EXCEPT ![Len(c)] = fr]

Idle == ctl = <<>>

\* the entry points that defer drainEventQueue
Draining == {"EvalGlobal", "EvalSession", "Eval", "EvalWithContext"}

\* runRuleList, were it to go on to the next rule after any rule that did
\* not fail
runRuleList_m(fr, v, err, next) ==
  IF next \/ err = NoErr
  THEN IF fr.i < Len(fr.list)
       THEN [fr EXCEPT !.i = @ + 1, !.at = "start"]
       ELSE [fr EXCEPT !.at = "ret", !.res = [v |-> NewValNull, err |-> NoErr]]
  ELSE [fr EXCEPT !.at = "ret", !.res = [v |-> v, err |-> err]]

\* runRuleList, were it to go on to the next rule after a rule that failed
runRuleList_e(fr, v, err, next) ==
  IF next \/ err # NoErr
  THEN IF fr.i < Len(fr.list)
       THEN [fr EXCEPT !.i = @ + 1, !.at = "start"]
       ELSE [fr EXCEPT !.at = "ret", !.res = [v |-> NewValNull, err |-> NoErr]]
  ELSE [fr EXCEPT !.at = "ret", !.res = [v |-> v, err |-> err]]

\* runRuleList: what the rule's (value, error, next) does to the loop
runRuleList(fr, v, err, next) ==
  IF next
  THEN IF fr.i < Len(fr.list)
       THEN [fr EXCEPT !.i = @ + 1, !.at = "start"]
       ELSE [fr EXCEPT !.at = "ret", !.res = [v |-> NewValNull, err |-> NoErr]]
  ELSE [fr EXCEPT !.at = "ret", !.res = [v |-> v, err |-> err]]

\* the loops of EvalGlobal and EvalSession, and EvalConfig's single runRule
runRule(fr, v, err) ==
  IF err # NoErr \/ fr.i >= Len(fr.list)
  THEN [fr EXCEPT !.at = "ret", !.res = [v |-> NewValNull, err |-> err]]
  ELSE [fr EXCEPT !.i = @ + 1, !.at = "start"]

afterRule(fr0, v, err, next) ==
  LET how == IF next THEN "next" ELSE IF err # NoErr THEN "err" ELSE "done"
      fr == [fr0 EXCEPT !.hist = Append(@, [p |-> fr0.list[fr0.i], how |-> how, v |-> v, err |-> err]),
                        !.caught = NoCatch]
  IN
  IF fr.fn \in {"Eval", "EvalWithContext", "EvalDeferred"}
  THEN runRuleList(fr, v, err, next)
  ELSE runRule(fr, v, err)

-----------------------------------------------------------------------------
(* Entry points: the host calls them on an idle evaluator *)

NoLast == [fn |-> "none", v |-> NewValNull, err |-> NoErr, drain |-> "none"]

hostCall(fr) ==
  /\ Idle
  /\ ctl' = <<fr>>
  /\ trace' = [trace EXCEPT !.log = <<>>]
  /\ last' = NoLast
  /\ UNCHANGED <<vmvars, heap, eventQ, inEventQueue, dispatched, nemit>>

\* configSet: the host has installed Evaluator.Config
EvalConfig(configSet) ==
  /\ hostCall(IF configSet
              THEN entryFrame("EvalConfig", <<ModuleConfig>>, NewValNull, 0)
              ELSE [entryFrame("EvalConfig", <<>>, NewValNull, 0)
                      EXCEPT !.res = [v |-> NewValNull, err |-> [msg |-> "evaluator's Config is not set"]]])
  /\ UNCHANGED <<Session, globalVar>>

EvalGlobal ==
  /\ hostCall(entryFrame("EvalGlobal", ModuleGlobal, NewValNull, 0))
  /\ globalVar' = <<>>
  /\ UNCHANGED Session

EvalSession ==
  /\ hostCall(entryFrame("EvalSession", ModuleSession, NewValNull, 0))
  /\ Session' = <<>>
  /\ UNCHANGED globalVar

Eval(event) ==
  /\ hostCall(entryFrame("Eval", findEvent(event), NewValNull, 0))
  /\ UNCHANGED <<Session, globalVar>>

EvalWithContext(event, context) ==
  /\ hostCall(entryFrame("EvalWithContext", findEvent(event), context, 0))
  /\ UNCHANGED <<Session, globalVar>>

EmitEvent(name, context) ==
  /\ Idle /\ nemit < MaxEmit
  /\ eventQ' = emitEvent(eventQ, name, context, nemit + 1)
  /\ nemit' = nemit + 1
  /\ UNCHANGED <<vmvars, heap, Session, globalVar, inEventQueue, ctl, last, trace, dispatched>>

-----------------------------------------------------------------------------
(* runRuleImpl *)

runRuleImpl ==
  /\ Len(ctl) > 0 /\ Top.k = "entry" /\ Top.at = "start"
  /\ LET p == Top.list[Top.i]
         r == prologue(<<NewValNull, Top.event>>, markTop, ftypeRule, 1, p, NilClosure)
     IN /\ Stack' = r.Stack
        /\ curframe' = r.curframe
        /\ curexcep' = NewValNull
        /\ pc' = 0
        /\ prog' = p
        /\ rr' = NoRR
        /\ ctl' = setTop(ctl, [Top EXCEPT !.at = "run"])
        /\ trace' = Note([op |-> "run", prog |-> p, fn |-> Top.fn, ev |-> Top.ev])
  /\ UNCHANGED <<heap, Session, globalVar, eventQ, inEventQueue, last, dispatched, nemit>>

Returned == Len(ctl) > 0 /\ Top.k = "entry" /\ Top.at = "run" /\ rr # NoRR

ruleEnd(how, v) == Note([op |-> "end", prog |-> Top.list[Top.i], how |-> how, v |-> v])

runRuleImplDone ==
  /\ Returned /\ isDone(rr)
  /\ Stack' = popN(Stack, 1)
  /\ ctl' = setTop(ctl, afterRule(Top, top0(Stack), NoErr, FALSE))
  /\ trace' = ruleEnd("done", top0(Stack))
  /\ pc' = 0 /\ prog' = NilProg /\ rr' = NoRR
  /\ UNCHANGED <<curframe, curexcep>>
  /\ UNCHANGED <<heap, Session, globalVar, eventQ, inEventQueue, last, dispatched, nemit>>

runRuleImplNextRule ==
  /\ Returned /\ isNextRule(rr)
  /\ ctl' = setTop(ctl, afterRule(Top, NewValNull, NoErr, TRUE))
  /\ trace' = ruleEnd("next", NewValNull)
  /\ pc' = 0 /\ prog' = NilProg /\ rr' = NoRR
  /\ UNCHANGED <<Stack, curframe, curexcep>>
  /\ UNCHANGED <<heap, Session, globalVar, eventQ, inEventQueue, last, dispatched, nemit>>

\* the error is caught: runP resumes at the handler
runRuleImplRecover ==
  /\ Returned /\ ~isDone(rr) /\ ~isNextRule(rr) /\ rr.e # NoErr
  /\ LET u == unwindForExcep(Stack, curframe, [k |-> "top"])
     IN /\ u.ok
        /\ Stack' = u.Stack
        /\ curframe' = u.curframe
        /\ curexcep' = NewValStr(rr.e.msg)
        /\ pc' = u.pc
        /\ prog' = u.prog
        /\ rr' = NoRR
        /\ ctl' = setTop(ctl, [Top EXCEPT !.caught = IF curframe.ftype \in {ftypeNFunc, ftypeMethod} THEN "native"
                                                     ELSE IF Depth > FramesIn(u.Stack) THEN "frames"
                                                     ELSE IF Len(Stack) > Len(u.Stack) THEN "operands"
                                                     ELSE "none"])
  /\ UNCHANGED <<heap, Session, globalVar, eventQ, inEventQueue, last, trace, dispatched, nemit>>

\* no handler: the error is reported
\* a yield comes back with no error: the unwind, or doErr after it, calls
\* Error() on the nil error, a run-time panic of the Go program
runRuleImplPanic ==
  /\ Returned /\ ~isDone(rr) /\ ~isNextRule(rr) /\ rr.e = NoErr
  /\ ctl' = Append(ctl, [k |-> "panic"])
  /\ UNCHANGED <<vmvars, heap, Session, globalVar, eventQ, inEventQueue, last, trace, dispatched, nemit>>

runRuleImplFail ==
  /\ Returned /\ ~isDone(rr) /\ ~isNextRule(rr) /\ rr.e # NoErr
  /\ LET u == unwindForExcep(Stack, curframe, [k |-> "top"])
     IN /\ ~u.ok
        /\ Stack' = u.Stack
        /\ curframe' = u.curframe
        /\ ctl' = setTop(ctl, afterRule(Top, NewValNull, doErr(u.bt, rr.prog, rr.pc, rr.e), FALSE))
  /\ trace' = ruleEnd("err", NewValNull)
  /\ pc' = 0 /\ prog' = NilProg /\ rr' = NoRR
  /\ UNCHANGED curexcep
  /\ UNCHANGED <<heap, Session, globalVar, eventQ, inEventQueue, last, dispatched, nemit>>

-----------------------------------------------------------------------------
(* Intrinsics that call back into the evaluator: closure.Call, that is     *)
(* runSFunc for a script closure and runNFunc for a native one             *)

closurePrologue(s, cf, fn, args, h) ==
  IF fn.ct = "script"
  THEN prologue(push(s, fn) \o args, cf, ftypeSFunc, Len(args), h[fn.id].prog,
                [ct |-> "script", id |-> fn.id])
  ELSE IF fn.ct = "native"
       THEN prologue(push(s, fn) \o args, cf, ftypeNFunc, Len(args), NilProg, [ct |-> "native"])
       ELSE prologue(push(s, fn) \o args, cf, ftypeMethod, Len(args), NilProg, [ct |-> "method"])

\* bcICall up to the call of the intrinsic's entry
intrinsicEntry(n) ==
  /\ Running /\ pc < MaxPc /\ Operands >= n + 1
  /\ topN(Stack, n).t = "int"
  /\ topN(Stack, n).i >= 0
  /\ LET r == prologue(Stack, [curframe EXCEPT !.pc = pc], ftypeIntrinsic, n, NilProg, NilClosure)
     IN /\ Stack' = r.Stack
        /\ curframe' = r.curframe
        /\ ctl' = Append(ctl, [k |-> "intrinsic", pc |-> pc, prog |-> prog,
                               arg |-> SubSeq(Stack, Len(Stack) - n + 1, Len(Stack)),
                               calls |-> 0, got |-> [v |-> NewValNull, err |-> NoErr]])
  /\ UNCHANGED <<curexcep, pc, prog, rr, qvars, heap, Session, globalVar, inEventQueue, last, dispatched>>

\* the intrinsic's entry returns (r, err): the rest of bcICall
intrinsicReturn(ret, err) ==
  /\ Len(ctl) > 0 /\ Top.k = "intrinsic"
  /\ ctl' = SubSeq(ctl, 1, Len(ctl) - 1)
  /\ IF err # NoErr
     THEN /\ rr' = rrErr(Top.prog, Top.pc, err)
          /\ pc' = Top.pc
          /\ prog' = Top.prog
          /\ UNCHANGED <<Stack, curframe>>
     ELSE LET ep == epilogue(Stack, curframe, ret, FALSE)
          IN /\ Stack' = ep.Stack
             /\ curframe' = ep.curframe
             /\ pc' = ep.pc + 1
             /\ prog' = ep.prog
             /\ UNCHANGED rr
  /\ UNCHANGED <<curexcep, qvars, heap, Session, globalVar, inEventQueue, last, dispatched>>

\* the intrinsic calls the script closure fn with args
runSFunc(fn, args) ==
  /\ Len(ctl) > 0 /\ Top.k = "intrinsic" /\ Top.calls < MaxCb
  /\ fn.t = "closure" /\ fn.ct = "script"
  /\ IF Len(args) # argSize(heap[fn.id].prog)
     THEN /\ ctl' = setTop(ctl, [Top EXCEPT !.calls = @ + 1,
                                            !.got = [v |-> NewValNull,
                                                     err |-> [msg |-> "function call, argument mismatch"]]])
          /\ UNCHANGED vmvars
     ELSE LET r == closurePrologue(Stack, curframe, fn, args, heap)
          IN /\ Stack' = r.Stack
             /\ curframe' = r.curframe
             /\ pc' = 0
             /\ prog' = r.curframe.prog
             /\ rr' = NoRR
             /\ ctl' = Append(setTop(ctl, [Top EXCEPT !.calls = @ + 1]),
                              [k |-> "sfunc", at |-> "run", sfunc |-> fn.id, size |-> Len(Stack),
                               frame |-> curframe])
             /\ UNCHANGED curexcep
  /\ UNCHANGED <<qvars, heap, Session, globalVar, inEventQueue, last, dispatched>>

\* runP returned Done to runSFunc, which returns the top of the stack
runSFuncDone ==
  /\ Len(ctl) > 1 /\ Top.k = "sfunc" /\ rr # NoRR /\ isDone(rr)
  /\ LET i == ctl[Len(ctl) - 1]
     IN /\ ctl' = Append(SubSeq(ctl, 1, Len(ctl) - 2),
                         [i EXCEPT !.got = [v |-> top0(Stack), err |-> NoErr]])
        /\ pc' = i.pc
        /\ prog' = i.prog
  /\ rr' = NoRR
  /\ UNCHANGED <<Stack, curframe, curexcep, qvars, heap, Session, globalVar, inEventQueue, last, dispatched>>

\* runP returned anything else and the unwinding stopped at the closure's
\* frame: the frame is popped and the error returned to the intrinsic.  A
\* run result that carries no error (NextRule, Yield) makes doErr call
\* Error() on a nil error: a Go panic
runSFuncFail ==
  /\ Len(ctl) > 1 /\ Top.k = "sfunc" /\ rr # NoRR /\ ~isDone(rr)
  /\ LET u == unwindForExcep(Stack, curframe, [k |-> "sfunc", id |-> Top.sfunc])
         r == popfuncframe(u.Stack, u.curframe, prevfuncframe(u.Stack, u.curframe))
         i == ctl[Len(ctl) - 1]
     IN /\ ~u.ok
        /\ Stack' = r.Stack
        /\ curframe' = r.curframe
        /\ pc' = i.pc
        /\ prog' = i.prog
        /\ ctl' = IF rr.e = NoErr
                  THEN Append(ctl, [k |-> "panic"])
                  ELSE Append(SubSeq(ctl, 1, Len(ctl) - 2),
                              [i EXCEPT !.got = [v |-> NewValNull,
                                                 err |-> doErr(u.bt, rr.prog, rr.pc, rr.e)]])
  /\ rr' = NoRR
  /\ UNCHANGED <<curexcep, qvars, heap, Session, globalVar, inEventQueue, last, dispatched>>

\* the intrinsic calls a native closure with args; its entry returns ret
runNFunc(args, ret) ==
  /\ Len(ctl) > 0 /\ Top.k = "intrinsic" /\ Top.calls < MaxCb
  /\ LET r == closurePrologue(Stack, curframe, newValNFunc, args, heap)
         ep == epilogue(r.Stack, r.curframe, ret, FALSE)
     IN /\ Stack' = popN(ep.Stack, 1)
        /\ curframe' = ep.curframe
  /\ ctl' = setTop(ctl, [Top EXCEPT !.calls = @ + 1, !.got = [v |-> ret, err |-> NoErr]])
  /\ UNCHANGED <<curexcep, pc, prog, rr, qvars, heap, Session, globalVar, inEventQueue, last, dispatched>>

-----------------------------------------------------------------------------
(* Script iterators.  The scriptIter type is not in the sources at hand;   *)
(* it follows the specification: a private stack, a saved pc and frame, a  *)
(* captured upvalue vector and the cached current value.  SetUp runs the   *)
(* body by runSIter and Next resumes it by resumeSIter, both keep the pc   *)
(* they return as the saved pc; Next of an iterator whose body has         *)
(* returned resumes nothing and answers false.  state is "new" before      *)
(* SetUp, "live" after a yield, "done" after the return, "err" after an    *)
(* error.  ys (the values the body yielded, with the pc of each yield) and *)
(* out (the values handed to onYield) are history.                         *)

bcPop ==
  /\ Running /\ pc < MaxPc /\ Operands >= 1
  /\ Stack' = popN(Stack, 1)
  /\ pc' = pc + 1
  /\ UNCHANGED <<curframe, curexcep, prog, rr, qvars, othervars>>

bcLoadIterator(idx) ==
  /\ Running
  /\ ModuleFn(idx) # NilProg
  /\ LET fn == ModuleFn(idx)
     IN IF progtype(fn) # "progIter"
        THEN /\ rr' = rrErr(prog, pc, [msg |-> "function cannot be loaded as iterator"])
             /\ UNCHANGED <<Stack, pc, heap>>
        ELSE /\ pc < MaxPc /\ CanPush /\ Len(heap) < MaxObj
             /\ \A k \in 1..Len(upvalue(fn)) :
                  IF upvalue(fn)[k].onStack
                  THEN IsLocal(Stack, curframe, upvalue(fn)[k].index)
                  ELSE curframe.closure # NilClosure
             /\ heap' = Append(heap, [prog |-> fn,
                                      upvalue |-> [k \in 1..Len(upvalue(fn)) |->
                                                     capture(Stack, curframe, upvalue(fn)[k], heap)],
                                      stack |-> <<>>, pc |-> 0, frame |-> markTop,
                                      state |-> "new", cur |-> NewValNull,
                                      ys |-> <<>>, out |-> <<>>])
             /\ Stack' = push(Stack, [t |-> "iter", id |-> Len(heap) + 1])
             /\ pc' = pc + 1
             /\ UNCHANGED rr
  /\ UNCHANGED <<curframe, curexcep, prog, qvars, Session, globalVar, inEventQueue, ctl, last, dispatched>>

iterPrologue_m(s, cf, siter, args, h) ==
  prologue(push(s, NewValNull) \o args, cf, ftypeSIter, Len(args), h[siter.id].prog, NilClosure)

iterPrologue(s, cf, siter, args, h) ==
  prologue(push(s, siter) \o args, cf, ftypeSIter, Len(args), h[siter.id].prog, NilClosure)

\* setUpIterator up to the runP of runSIterRest: SetUp of a script iterator
\* is runSIter, which runs the body on the iterator's stack
bcSetUpIterator(n) ==
  /\ Running /\ Operands >= n + 1
  /\ LET tos == topN(Stack, n)
     IN IF tos.t # "iter"
        THEN /\ rr' = rrErr(prog, pc, [msg |-> "value is not iterator, cannot use iter setup expression"])
             /\ UNCHANGED <<Stack, curframe, pc, prog, ctl>>
        ELSE /\ pc < MaxPc
             /\ heap[tos.id].state = "new"
             /\ LET r == iterPrologue(heap[tos.id].stack, curframe, tos,
                                      SubSeq(Stack, Len(Stack) - n + 1, Len(Stack)), heap)
                IN /\ Stack' = r.Stack
                   /\ curframe' = r.curframe
                   /\ pc' = heap[tos.id].pc
                   /\ prog' = r.curframe.prog
                   /\ ctl' = Append(ctl, [k |-> "siter", at |-> "run", id |-> tos.id, op |-> "setup",
                                          n |-> n, pc |-> pc, prog |-> prog, oldStack |-> Stack,
                                          frame |-> curframe])
             /\ UNCHANGED rr
  /\ UNCHANGED <<curexcep, qvars, heap, Session, globalVar, inEventQueue, last, dispatched>>

\* nextIterator up to the runP of runSIterRest: Next of a script iterator
\* whose body has not returned is resumeSIter
bcNextIterator ==
  /\ Running /\ pc < MaxPc /\ CanPush /\ Operands >= 1
  /\ top0(Stack).t = "iter"
  /\ LET siter == heap[top0(Stack).id]
     IN /\ siter.state \in {"live", "done"}
        /\ IF siter.state = "done"
           THEN /\ Stack' = push(Stack, NewValBool(FALSE))
                /\ pc' = pc + 1
                /\ UNCHANGED <<curframe, prog, ctl>>
           ELSE /\ Stack' = [siter.stack EXCEPT ![prevframepos(siter.frame) + 1] = newValFrame(curframe)]
                /\ curframe' = siter.frame
                /\ pc' = siter.pc
                /\ prog' = siter.frame.prog
                /\ ctl' = Append(ctl, [k |-> "siter", at |-> "run", id |-> top0(Stack).id,
                                       op |-> "next", n |-> 0, pc |-> pc, prog |-> prog,
                                       oldStack |-> Stack, frame |-> curframe])
  /\ UNCHANGED <<curexcep, rr, qvars, heap, Session, globalVar, inEventQueue, last, dispatched>>

\* yield, were the run to resume at the yield itself
bcYield_m ==
  /\ Running /\ Operands >= 1
  /\ rr' = rrYield(pc)
  /\ heap' = IF Top.k = "siter"
             THEN [heap EXCEPT ![Top.id].ys = Append(@, [v |-> top0(Stack), at |-> pc])]
             ELSE heap
  /\ UNCHANGED <<Stack, curframe, curexcep, pc, prog, qvars, Session, globalVar, inEventQueue, ctl, last, dispatched>>

bcYield ==
  /\ Running /\ Operands >= 1
  /\ rr' = rrYield(pc + 1)
  /\ heap' = IF Top.k = "siter"
             THEN [heap EXCEPT ![Top.id].ys = Append(@, [v |-> top0(Stack), at |-> pc])]
             ELSE heap
  /\ UNCHANGED <<Stack, curframe, curexcep, pc, prog, qvars, Session, globalVar, inEventQueue, ctl, last, dispatched>>

\* the frame the evaluator is left in, were the deferred function of
\* runSIterRest not to restore the frame
runSIterRestDefer_m(s, cf, done) == cf

\* the frame the deferred function of runSIterRest leaves the evaluator in:
\* s and cf are the iterator's stack and frame at the end of the run
runSIterRestDefer(s, cf, done) == IF done THEN cf ELSE prevfuncframe(s, cf)

\* runP has returned to runSIterRest: the rest of it, its deferred function
\* and that of runSIter or resumeSIter, and the rest of the setUpIterator or
\* nextIterator that called SetUp or Next.  A run result that is not Done
\* nor Yield and carries no error makes doErr call Error() on a nil error:
\* a Go panic
runSIterRest ==
  /\ Len(ctl) > 0 /\ Top.k = "siter" /\ rr # NoRR
  /\ LET siter == heap[Top.id]
         how == IF isDone(rr) THEN "done" ELSE IF rr.rstate = rstateYield THEN "live" ELSE "err"
         u == unwindForExcep(Stack, curframe, [k |-> "siter"])
         s1 == IF how = "err" THEN u.Stack ELSE popN(Stack, 1)
         cf1 == IF how = "err" THEN u.curframe ELSE curframe
         err == IF how = "err" THEN doErr(u.bt, rr.prog, rr.pc, rr.e) ELSE NoErr
     IN /\ how = "err" => ~u.ok
        /\ heap' = [heap EXCEPT ![Top.id] =
                      [siter EXCEPT !.stack = s1,
                                    !.pc = rr.pc,
                                    !.frame = IF how = "done" THEN @ ELSE cf1,
                                    !.state = how,
                                    !.cur = IF how = "live" THEN top0(Stack) ELSE @,
                                    !.out = IF how = "live" THEN Append(@, top0(Stack)) ELSE @]]
        /\ curframe' = runSIterRestDefer(s1, cf1, how = "done")
        /\ prog' = Top.prog
        /\ IF how = "err" /\ rr.e = NoErr
           THEN /\ ctl' = Append(ctl, [k |-> "panic"])
                /\ Stack' = Top.oldStack
                /\ pc' = Top.pc
                /\ rr' = NoRR
           ELSE /\ ctl' = SubSeq(ctl, 1, Len(ctl) - 1)
                /\ IF err # NoErr
                   THEN /\ rr' = rrErr(Top.prog, Top.pc, err)
                        /\ Stack' = Top.oldStack
                        /\ pc' = Top.pc
                   ELSE /\ rr' = NoRR
                        /\ Stack' = IF Top.op = "setup"
                                     THEN popN(Top.oldStack, Top.n)
                                     ELSE push(Top.oldStack, NewValBool(how = "live"))
                        /\ pc' = Top.pc + 1
  /\ UNCHANGED <<curexcep, qvars, Session, globalVar, inEventQueue, last, dispatched>>

-----------------------------------------------------------------------------
(* drainEventQueue, deferred by the entry points of Draining *)

\* the callback, were its test of the status inverted
callback_m(status) == status # EventContextContinue

\* the callback drainEventQueue hands to Drain: whether the drain goes on
callback(status) == status = EventContextContinue

\* the clearing, were it tied to the wrong status
clearAfterDrain_m(status) == status = EventContextPuase

\* the clearing, were it done after every drain that stopped
clearAfterDrain_p(status) == status # EventContextContinue

\* whether drainEventQueue clears the queue once Drain has returned
clearAfterDrain(status) == status = EventContextStopAndClear

\* drainEventQueue, were it not to look at the flag
draining_m(inq) == FALSE

\* drainEventQueue, were its test of the flag inverted
draining_n(inq) == ~inq

\* the test drainEventQueue opens with: a drain is running already
draining(inq) == inq

drainEventQueue ==
  /\ Len(ctl) > 0 /\ Top.k = "entry" /\ Top.at = "ret"
  /\ Top.fn \in Draining /\ Top.drain = "none"
  /\ IF draining(inEventQueue)
     THEN /\ ctl' = setTop(ctl, [Top EXCEPT !.drain = "skipped"])
          /\ UNCHANGED inEventQueue
     ELSE /\ inEventQueue' = TRUE
          /\ ctl' = Append(setTop(ctl, [Top EXCEPT !.drain = "ran"]), drainFrame)
  /\ UNCHANGED <<vmvars, heap, Session, globalVar, eventQ, last, trace, dispatched, nemit>>

\* Drain has returned: the rest of drainEventQueue and its deferred function
drainEventQueueDone ==
  /\ Len(ctl) > 0 /\ Top.k = "drain"
  /\ Top.at = "stop" \/ (Top.at = "loop" /\ eventQ = <<>>)
  /\ eventQ' = IF clearAfterDrain(Top.status) THEN Clear(eventQ) ELSE eventQ
  /\ inEventQueue' = FALSE
  /\ ctl' = SubSeq(ctl, 1, Len(ctl) - 1)
  /\ trace' = Note([op |-> "drained", status |-> Top.status])
  /\ UNCHANGED <<vmvars, heap, Session, globalVar, last, dispatched, nemit>>

\* the entry point returns to its caller: the host, or the host's
\* OnEventError that called it
Return ==
  /\ Len(ctl) > 0 /\ Top.k = "entry" /\ Top.at = "ret"
  /\ Top.fn # "EvalDeferred"
  /\ Top.fn \in Draining => Top.drain # "none"
  /\ ctl' = SubSeq(ctl, 1, Len(ctl) - 1)
  /\ last' = IF Len(ctl) = 1
             THEN [fn |-> Top.fn, v |-> Top.res.v, err |-> Top.res.err, drain |-> Top.drain]
             ELSE last
  /\ UNCHANGED <<vmvars, heap, Session, globalVar, eventQ, inEventQueue, trace, dispatched, nemit>>

-----------------------------------------------------------------------------
(* EventQueue.Drain of the default queue, after the specification: the     *)
(* queue is walked first in, first out; each event is taken off the queue  *)
(* and handed to EvalDeferred; a failing evaluation is reported to the     *)
(* callback, and the walk stops when the callback returns false.           *)

EvalDeferred(name, context, id) == entryFrame("EvalDeferred", findEvent(name), context, id)

Drain ==
  /\ Len(ctl) > 0 /\ Top.k = "drain" /\ Top.at = "loop"
  /\ eventQ # <<>>
  /\ LET x == Head(eventQ)
     IN /\ eventQ' = Tail(eventQ)
        /\ dispatched' = Append(dispatched, x.id)
        /\ trace' = Note([op |-> "dispatch", id |-> x.id])
        /\ ctl' = Append(setTop(ctl, [Top EXCEPT !.cur = x.id]), EvalDeferred(x.name, x.context, x.id))
  /\ UNCHANGED <<vmvars, heap, Session, globalVar, inEventQueue, last, nemit>>

\* EvalDeferred has returned to Drain; on an error the callback runs, up to
\* its call of the host's OnEventError when there is one.  Event: whether
\* Evaluator.Event, a field the host sets, is not nil when the callback reads it
DrainResult(Event) ==
  /\ Len(ctl) > 1 /\ Top.k = "entry" /\ Top.at = "ret" /\ Top.fn = "EvalDeferred"
  /\ LET d == ctl[Len(ctl) - 1]
         to == IF Top.res.err = NoErr THEN "loop"
               ELSE IF Event THEN "cb"
               ELSE IF callback(d.status) THEN "loop" ELSE "stop"
     IN ctl' = Append(SubSeq(ctl, 1, Len(ctl) - 2), [d EXCEPT !.at = to])
  /\ UNCHANGED <<vmvars, heap, Session, globalVar, eventQ, inEventQueue, last, trace, dispatched, nemit>>

\* the host's OnEventError returns status
OnEventError(status) ==
  /\ Len(ctl) > 0 /\ Top.k = "drain" /\ Top.at = "cb"
  /\ ctl' = setTop(ctl, [Top EXCEPT !.status = status,
                                    !.at = IF callback(status) THEN "loop" ELSE "stop",
                                    !.reported = Append(@, Top.cur)])
  /\ trace' = Note([op |-> "onerr", id |-> Top.cur, status |-> status])
  /\ UNCHANGED <<vmvars, heap, Session, globalVar, eventQ, inEventQueue, last, dispatched, nemit>>

\* the host's OnEventError evaluates an event on the evaluator before it
\* returns (once per drain)
OnEventErrorEval(event) ==
  /\ Len(ctl) > 0 /\ Top.k = "drain" /\ Top.at = "cb" /\ ~Top.reent
  /\ ctl' = Append(setTop(ctl, [Top EXCEPT !.reent = TRUE]),
                   entryFrame("Eval", findEvent(event), NewValNull, 0))
  /\ UNCHANGED <<vmvars, heap, Session, globalVar, eventQ, inEventQueue, last, trace, dispatched, nemit>>

-----------------------------------------------------------------------------
(* Specifications *)

Init ==
  /\ Stack = <<>>
  /\ Session = <<>>
  /\ globalVar = <<>>
  /\ curframe = markTop
  /\ curexcep = NewValNull
  /\ eventQ = <<>>
  /\ inEventQueue = FALSE
  /\ pc = 0
  /\ prog = NilProg
  /\ rr = NoRR
  /\ ctl = <<>>
  /\ last = NoLast
  /\ trace = [on |-> FALSE, log |-> <<>>]
  /\ dispatched = <<>>
  /\ nemit = 0
  /\ heap = <<>>

\* the interpreter: event "e" evaluated by Eval, over rules that load a
\* constant, divide, call the script function or an intrinsic, guard their
\* code by one handler at a time, and end by return, halt, nextRule or an
\* error; the script function is a leaf but for its intrinsic calls
Next ==
  \/ Eval("e")
  \/ runRuleImpl
  \/ bcLoadInt(0)
  \/ bcDiv
  \/ \E h \in 1..MaxPc : pc < h /\ curframe.excep = <<>> /\ bcPushException(h)
  \/ \E r \in 1..MaxPc : pc < r /\ bcPopException(r)
  \/ Len(Stack) = Base(curframe) /\ bcLoadException
  \/ \E n \in 0..1 : prog # ModuleFn(0) /\ bcSCall(n)
  \/ \E e \in IntrinsicErrs : bcICall(0, NewValInt64(0), e)
  \/ bcReturn
  \/ bcHalt
  \/ bcNextRule
  \/ runRuleImplDone
  \/ runRuleImplNextRule
  \/ runRuleImplRecover
  \/ runRuleImplFail
  \/ drainEventQueue
  \/ drainEventQueueDone
  \/ Return

Spec == Init /\ [][Next]_vars

\* unwinding: as above, with up to two handlers in a frame and with native
\* functions and methods, which an intrinsic hands out and vCall calls
NextUw ==
  \/ Eval("e")
  \/ runRuleImpl
  \/ bcLoadInt(0)
  \/ \E h \in {MaxPc - 1, MaxPc} : pc < h /\ Len(curframe.excep) < 2 /\ bcPushException(h)
  \/ prog # ModuleFn(0) /\ bcSCall(0)
  \/ \E f \in {newValNFunc, newValMFunc}, e \in IntrinsicErrs : bcICall(0, f, e)
  \/ bcVCall(0)
  \/ bcReturn
  \/ runRuleImplDone
  \/ runRuleImplRecover
  \/ runRuleImplFail
  \/ drainEventQueue
  \/ drainEventQueueDone
  \/ Return

SpecUw == Init /\ [][NextUw]_vars

\* the entry points, the rule runner and the event queue, over rules that
\* load constants, emit, and end by return, halt, nextRule or a failing load
NextEv ==
  \/ \E c \in BOOLEAN : EvalConfig(c)
  \/ EvalGlobal
  \/ EvalSession
  \/ \E ev \in EventNames : Eval(ev)
  \/ EvalWithContext("e", NewValInt64(7))
  \/ \E ev \in {"e", "none"} : EmitEvent(ev, NewValNull)
  \/ runRuleImpl
  \/ bcLoadInt(7)
  \/ Len(Stack) = Base(curframe) /\ bcLoadStr("child")
  \/ bcLoadSession(0)
  \/ bcReturn
  \/ bcHalt
  \/ bcNextRule
  \/ bcEmit
  \/ runRuleImplDone
  \/ runRuleImplNextRule
  \/ runRuleImplFail
  \/ drainEventQueue
  \/ drainEventQueueDone
  \/ Return
  \/ Drain
  \/ \E ec \in BOOLEAN : DrainResult(ec)
  \/ \E st \in {EventContextContinue, EventContextPuase, EventContextStopAndClear} : OnEventError(st)
  \/ \E ev \in {"child", "none"} : OnEventErrorEval(ev)

SpecEv == Init /\ [][NextEv]_vars

\* the locals of the frame of curframe.prog are reserved
Reserved == Len(Stack) >= Base(curframe)

\* closures and calls back: rule R of event "c" calls f, which creates the
\* closure g over its local x and may write x afterwards; R calls g itself
\* or hands it to an intrinsic that calls it (with 5, then with 6), or a
\* native closure, and g reads and writes its argument and its upvalue and
\* ends by return, halt or nextRule
NextCl ==
  \/ Eval("c")
  \/ runRuleImpl
  \/ bcReserveLocal(1)
  \/ \E n \in {0, 2} : Reserved /\ prog # "f" /\ bcLoadInt(n)
  \/ Reserved /\ prog = "f" /\ bcLoadInt(7)
  \/ prog = "R" /\ bcSCall(0)
  \/ \E i \in 0..1 : Reserved /\ bcStoreLocal(i)
  \/ Reserved /\ prog = "g" /\ bcLoadLocal(0)
  \/ Reserved /\ prog = "f" /\ bcNewClosure(1)
  \/ bcLoadUpvalue(0)
  \/ bcStoreUpvalue(0)
  \/ \E n \in 0..1 : prog = "R" /\ bcVCall(n)
  \/ prog = "R" /\ intrinsicEntry(1)
  \/ \E n \in 0..1 : Len(ctl) > 0 /\ Top.k = "intrinsic" /\ runSFunc(Top.arg[1], [k \in 1..n |-> NewValInt64(5 + Top.calls)])
  \/ runSFuncDone
  \/ runSFuncFail
  \/ runNFunc(<<NewValInt64(0)>>, NewValInt64(0))
  \/ \E e \in IntrinsicErrs : intrinsicReturn(NewValInt64(0), e)
  \/ Reserved /\ bcReturn
  \/ Reserved /\ bcHalt
  \/ Reserved /\ bcNextRule
  \/ runRuleImplDone
  \/ runRuleImplNextRule
  \/ runRuleImplFail
  \/ drainEventQueue
  \/ drainEventQueueDone
  \/ Return

SpecCl == Init /\ [][NextCl]_vars

\* the session and the global store: the session program sets session
\* variables and the global program global variables, from ints and lists;
\* they and the rule of "child" load and store them, at indices that exist
\* or not, and end by return or by an error
NextSt ==
  \/ EvalSession
  \/ EvalGlobal
  \/ Eval("child")
  \/ runRuleImpl
  \/ bcLoadInt(7)
  \/ bcNewList
  \/ prog = "S" /\ bcSetSession
  \/ \E i \in 0..MaxStore : bcLoadSession(i)
  \/ \E i \in 0..MaxStore : bcStoreSession(i)
  \/ prog = "G" /\ bcSetGlobal
  \/ \E i \in 0..MaxStore : bcLoadGlobal(i)
  \/ \E i \in 0..MaxStore : bcStoreGlobal(i)
  \/ bcReturn
  \/ runRuleImplDone
  \/ runRuleImplFail
  \/ drainEventQueue
  \/ drainEventQueueDone
  \/ Return

SpecSt == Init /\ [][NextSt]_vars

\* script iterators: the host fires event "i" once; rule C loads the
\* iterator gen, sets it up and steps it, under a handler or not; gen yields
\* and returns ints and calls F, which calls an intrinsic that may fail
NextIt ==
  \/ heap = <<>> /\ Eval("i")
  \/ runRuleImpl
  \/ prog = "C" /\ bcLoadIterator(3)
  \/ prog = "C" /\ bcSetUpIterator(0)
  \/ prog = "C" /\ bcNextIterator
  \/ prog = "C" /\ bcPop
  \/ prog = "C" /\ pc < MaxPc /\ curframe.excep = <<>> /\ bcPushException(MaxPc)
  \/ \E n \in 0..1 : prog = "gen" /\ bcLoadInt(n)
  \/ curframe.ftype = ftypeSIter /\ bcYield
  \/ prog = "gen" /\ bcSCall(0)
  \/ prog = "F" /\ bcLoadInt(0)
  \/ \E e \in IntrinsicErrs : prog = "F" /\ bcICall(0, NewValInt64(1), e)
  \/ bcReturn
  \/ runSIterRest
  \/ runRuleImplDone
  \/ runRuleImplRecover
  \/ runRuleImplFail
  \/ drainEventQueue
  \/ drainEventQueueDone
  \/ Return

SpecIt == Init /\ [][NextIt]_vars

\* handlers in re-entered frames: the callback g, handed to an intrinsic
\* which calls it with g itself as the argument, and the generator gen,
\* driven by a rule; each pushes a handler, calls what it holds, and fails
NextRe ==
  \/ heap = <<>> /\ Eval("c")
  \/ heap = <<>> /\ Eval("i")
  \/ runRuleImpl
  \/ prog = "f" /\ bcReserveLocal(1)
  \/ \E n \in {0, 2} : prog \in {"R", "g", "gen"} /\ bcLoadInt(n)
  \/ prog = "R" /\ bcSCall(0)
  \/ Reserved /\ prog = "f" /\ bcNewClosure(1)
  \/ prog = "g" /\ bcLoadLocal(0)
  \/ \E n \in 0..1 : prog \in {"g", "gen"} /\ Depth < MaxNest /\ bcVCall(n)
  \/ prog \in {"g", "gen"} /\ pc < MaxPc /\ curframe.excep = <<>> /\ bcPushException(MaxPc)
  \/ prog = "R" /\ intrinsicEntry(1)
  \/ Len(ctl) > 0 /\ Top.k = "intrinsic" /\ Top.calls = 0 /\ runSFunc(Top.arg[1], <<Top.arg[1]>>)
  \/ runSFuncDone
  \/ runSFuncFail
  \/ \E e \in IntrinsicErrs : intrinsicReturn(NewValInt64(0), e)
  \/ prog = "C" /\ bcLoadIterator(3)
  \/ prog = "C" /\ bcSetUpIterator(0)
  \/ prog = "C" /\ bcNextIterator
  \/ curframe.ftype = ftypeSIter /\ bcYield
  \/ Reserved /\ bcReturn
  \/ runSIterRest
  \/ runRuleImplDone
  \/ runRuleImplFail
  \/ drainEventQueue
  \/ drainEventQueueDone
  \/ Return

SpecRe == Init /\ [][NextRe]_vars

\* calls: the rule R and the functions it reaches call script functions,
\* the closure g, native functions, methods and intrinsics, with no and
\* with one argument, and return
NextCa ==
  \/ heap = <<>> /\ Eval("c")
  \/ runRuleImpl
  \/ prog = "f" /\ bcReserveLocal(1)
  \/ \E n \in {0, 2} : Reserved /\ prog # "f" /\ bcLoadInt(n)
  \/ prog = "R" /\ bcSCall(0)
  \/ Reserved /\ prog = "f" /\ bcNewClosure(1)
  \/ prog = "g" /\ bcLoadLocal(0)
  \/ prog = "g" /\ pc < MaxPc /\ curframe.excep = <<>> /\ bcPushException(MaxPc)
  \/ \E n \in 0..1 : prog = "R" /\ bcVCall(n)
  \/ \E n \in 0..1, f \in {NewValInt64(0), newValNFunc, newValMFunc}, e \in IntrinsicErrs :
       prog # "f" /\ bcICall(n, f, e)
  \/ Reserved /\ bcReturn
  \/ runRuleImplDone
  \/ runRuleImplFail
  \/ drainEventQueue
  \/ drainEventQueueDone
  \/ Return

SpecCa == Init /\ [][NextCa]_vars

\* generators whose code halts, or yields from a function they call, and a
\* rule that yields.  An instruction of the rule is executed in the frame of
\* the rule, one of the generator in the frame of the generator: what the
\* evaluator does once it has lost the frame is not explored.
NextIy ==
  \/ heap = <<>> /\ Eval("i")
  \/ runRuleImpl
  \/ prog = "C" /\ curframe.ftype = ftypeRule /\ bcLoadIterator(3)
  \/ prog = "C" /\ curframe.ftype = ftypeRule /\ bcSetUpIterator(0)
  \/ prog = "C" /\ curframe.ftype = ftypeRule /\ bcNextIterator
  \/ \E n \in 0..1 : prog \in {"gen", "F"} /\ bcLoadInt(n)
  \/ prog = "gen" /\ curframe.ftype = ftypeSIter /\ bcSCall(0)
  \/ prog = "gen" /\ curframe.ftype = ftypeSIter /\ bcHalt
  \/ (prog = "C" => curframe.ftype = ftypeRule) /\ bcYield
  \/ (prog = "C" => curframe.ftype = ftypeRule) /\ bcReturn
  \/ runSIterRest
  \/ runRuleImplDone
  \/ runRuleImplPanic
  \/ runRuleImplFail
  \/ drainEventQueue
  \/ drainEventQueueDone
  \/ Return

SpecIy == Init /\ [][NextIy]_vars

\* comparisons: event "e" evaluated by Eval, over rules that load constants
\* of every kind a constant has, compare them by == and !=, drop a value,
\* and end by return or by an uncaught error
NextOp ==
  \/ Eval("e")
  \/ runRuleImpl
  \/ \E n \in 0..1 : bcLoadInt(n)
  \/ \E x \in {"a", "b"} : bcLoadStr(x)
  \/ \E v \in {NewValBool(TRUE), NewValBool(FALSE), NewValNull} : bcLoadConst(v)
  \/ \E op \in {"bcEq", "bcNe"} : bcCmp(op)
  \/ bcPop
  \/ bcReturn
  \/ runRuleImplDone
  \/ runRuleImplFail
  \/ drainEventQueue
  \/ drainEventQueueDone
  \/ Return

SpecOp == Init /\ [][NextOp]_vars

\* the short-circuit jumps: rules load constants and, on a boolean, jump
\* forward over the instructions in between with and, or
NextJc ==
  \/ Eval("e")
  \/ runRuleImpl
  \/ \E v \in {NewValBool(TRUE), NewValBool(FALSE), NewValNull} : bcLoadConst(v)
  \/ \E t \in 1..MaxPc : pc < t /\ Len(Stack) > 0 /\ top0(Stack).t = "bool" /\ bcOr(t)
  \/ \E t \in 1..MaxPc : pc < t /\ Len(Stack) > 0 /\ top0(Stack).t = "bool" /\ bcAnd(t)
  \/ bcPop
  \/ bcReturn
  \/ bcHalt
  \/ bcNextRule
  \/ runRuleImplDone
  \/ runRuleImplNextRule
  \/ drainEventQueue
  \/ drainEventQueueDone
  \/ Return

SpecJc == Init /\ [][NextJc]_vars

\* deep call chains: the rule of event "e" calls script function F, which
\* calls itself, with one or two operands on the stack, until some
\* activation divides by zero; no frame has a handler
NextBt ==
  \/ Eval("e")
  \/ runRuleImpl
  \/ bcLoadInt(0)
  \/ Depth < MaxDepth /\ bcSCall(0)
  \/ bcDiv
  \/ runRuleImplFail
  \/ drainEventQueue
  \/ drainEventQueueDone
  \/ Return

SpecBt == Init /\ [][NextBt]_vars

\* one event evaluated by Eval with the history of the call recorded, over
\* rules that load constants, emit, and end by return, halt or nextRule
InitSc ==
  /\ Stack = <<>>
  /\ Session = <<>>
  /\ globalVar = <<>>
  /\ curframe = markTop
  /\ curexcep = NewValNull
  /\ eventQ = <<>>
  /\ inEventQueue = FALSE
  /\ pc = 0
  /\ prog = NilProg
  /\ rr = NoRR
  /\ ctl = <<>>
  /\ last = NoLast
  /\ trace = [on |-> TRUE, log |-> <<>>]
  /\ dispatched = <<>>
  /\ nemit = 0
  /\ heap = <<>>

NextSc ==
  \/ Eval("e")
  \/ runRuleImpl
  \/ bcLoadInt(7)
  \/ Len(Stack) = Base(curframe) /\ bcLoadStr("child")
  \/ bcReturn
  \/ bcHalt
  \/ bcNextRule
  \/ bcEmit
  \/ runRuleImplDone
  \/ runRuleImplNextRule
  \/ drainEventQueue
  \/ drainEventQueueDone
  \/ Return
  \/ Drain
  \/ DrainResult(FALSE)

SpecSc == InitSc /\ [][NextSc]_vars

\* configuration: EvalConfig runs the config rule, which loads constants and
\* issues commands, with or without an attribute, to a host that accepts or
\* refuses them
NextCf ==
  \/ EvalConfig(TRUE)
  \/ runRuleImpl
  \/ \E n \in 0..1 : bcLoadInt(n)
  \/ \E x \in {"cmd", "at"} : bcLoadStr(x)
  \/ \E opcode \in {"bcConfigCommand", "bcConfigCommandWithAttr"}, pcnt \in 0..(MaxOperand - 1),
        err \in IntrinsicErrs : bcConfigCommand(opcode, pcnt, err)
  \/ bcReturn
  \/ runRuleImplDone
  \/ runRuleImplFail
  \/ Return

SpecCf == InitSc /\ [][NextCf]_vars

-----------------------------------------------------------------------------
(* The query functions q::avg, q::count and q::select, and the iterator of *)
(* a pair, called as Go functions.  A list is [t |-> "list", data |-> the  *)
(* sequence of its elements], a pair [t |-> "pair", First, Second].  The   *)
(* arguments are in Stack, as bcICall leaves them for the function, and    *)
(* match its signature ("{%l}" or "{%l%d*}"), so that info.Check passes.   *)
(* The result is kept in last; a Go panic is a panic frame.                *)

isint == 0
isreal == 1
isnone == 2

firstNum(data) ==
  LET nums == {k \in 1..Len(data) : data[k].t \in {"int", "real"}}
  IN IF nums = {}
     THEN [t |-> isnone, idx |-> -1]
     ELSE LET k == CHOOSE x \in nums : \A y \in nums : x <= y
          IN [v |-> data[k], t |-> IF data[k].t = "int" THEN isint ELSE isreal, idx |-> k - 1]

\* qagg: t and the values the joiner is called with, in order.  The value
\* the joiner folds (current) is left out: qAvg and qCount discard it
qagg(data) ==
  LET f == firstNum(data)
      rest == SubSeq(data, f.idx + 2, Len(data))
      IsInt(v) == v.t = "int"
      IsReal(v) == v.t = "real"
  IN IF f.t = isint THEN [t |-> isint, joined |-> SelectSeq(rest, IsInt)]
     ELSE IF f.t = isreal THEN [t |-> isreal, joined |-> SelectSeq(rest, IsReal)]
     ELSE [t |-> isnone, joined |-> <<>>]

\* the total qAvg's joiner accumulates (avg.itt or avg.rtt), as a quotient
RECURSIVE qavginfo(_)
qavginfo(joined) ==
  IF joined = <<>>
  THEN [num |-> 0, den |-> 1]
  ELSE LET x == Head(joined)
           xn == IF x.t = "int" THEN x.i ELSE x.num
           xd == IF x.t = "int" THEN 1 ELSE x.den
           r == qavginfo(Tail(joined))
       IN [num |-> xn * r.den + r.num * xd, den |-> xd * r.den]

qAvg(args) ==
  LET a == qagg(args[1].data)
      tt == qavginfo(a.joined)
      count == Len(a.joined)
  IN IF a.t = isnone
     THEN [v |-> NewValNull, e |-> NoErr, panic |-> FALSE]
     ELSE [v |-> NewValReal(tt.num, tt.den * count), e |-> NoErr, panic |-> FALSE]

qCount(args) ==
  LET a == qagg(args[1].data)
      count == 1 + Len(a.joined)
  IN IF a.t = isnone
     THEN [v |-> NewValInt64(0), e |-> NoErr, panic |-> FALSE]
     ELSE [v |-> NewValInt64(count), e |-> NoErr, panic |-> FALSE]

\* qSelect of a list: o is the list built so far, k the next argument
RECURSIVE qSelect(_, _, _)
qSelect(args, o, k) ==
  IF k > Len(args)
  THEN [v |-> [t |-> "list", data |-> o], e |-> NoErr, panic |-> FALSE]
  ELSE LET l == args[1].data
           idx == args[k].i
       IN IF idx >= 0 /\ idx <= Len(l)
          THEN IF idx >= Len(l)
               THEN [v |-> NewValNull, e |-> NoErr, panic |-> TRUE]
               ELSE qSelect(args, Append(o, At(l, idx)), k + 1)
          ELSE qSelect(args, o, k + 1)

\* the call of the entry of an intrinsic function, one of the above, with
\* the arguments in Stack
intrinsicCall(fn) ==
  /\ Idle /\ last = NoLast
  /\ Len(Stack) >= 1 /\ Stack[1].t = "list"
  /\ fn # "q::select" => Len(Stack) = 1
  /\ LET r == CASE fn = "q::avg" -> qAvg(Stack)
                [] fn = "q::count" -> qCount(Stack)
                [] fn = "q::select" -> qSelect(Stack, <<>>, 2)
     IN IF r.panic
        THEN /\ ctl' = <<[k |-> "panic"]>>
             /\ UNCHANGED last
        ELSE /\ last' = [NoLast EXCEPT !.fn = fn, !.v = r.v, !.err = r.e]
             /\ UNCHANGED ctl
  /\ UNCHANGED <<vmvars, heap, Session, globalVar, eventQ, inEventQueue, trace, dispatched, nemit>>

\* PairIter: [p |-> the pair, cnt |-> the position]
PairIterHas(it) == it.cnt < 2

\* PairIter.Next, were it to answer for the position it leaves
PairIterNext_m(it) ==
  [it |-> [it EXCEPT !.cnt = @ + 1], has |-> PairIterHas(it), e |-> NoErr]

PairIterNext(it) ==
  LET it1 == [it EXCEPT !.cnt = @ + 1]
  IN [it |-> it1, has |-> PairIterHas(it1), e |-> NoErr]

PairIterDeref(it) ==
  CASE it.cnt = 0 -> [key |-> NewValInt64(0), val |-> it.p.First, e |-> NoErr]
    [] it.cnt = 1 -> [key |-> NewValInt64(1), val |-> it.p.Second, e |-> NoErr]
    [] OTHER -> [key |-> NewValNull, val |-> NewValNull, e |-> [msg |-> "iterator out of bound"]]

\* Pair.NewIter of the pair in Stack
NewIter ==
  /\ Idle /\ heap = <<>>
  /\ Len(Stack) = 1 /\ Stack[1].t = "pair"
  /\ heap' = <<[p |-> Stack[1], cnt |-> 0]>>
  /\ UNCHANGED <<vmvars, Session, globalVar, eventQ, inEventQueue, ctl, last, trace, dispatched, nemit>>

\* one call of Has, Next or Deref of the pair iterator, its result recorded
\* in trace
IterCall(m) ==
  /\ Idle /\ Len(heap) = 1 /\ "cnt" \in DOMAIN heap[1]
  /\ Len(trace.log) < MaxCalls
  /\ CASE m = "Has" ->
            /\ trace' = Note([op |-> "Has", has |-> PairIterHas(heap[1])])
            /\ UNCHANGED heap
       [] m = "Next" ->
            /\ trace' = Note([op |-> "Next", has |-> PairIterNext(heap[1]).has])
            /\ heap' = <<PairIterNext(heap[1]).it>>
       [] m = "Deref" ->
            /\ trace' = Note([op |-> "Deref", r |-> PairIterDeref(heap[1])])
            /\ UNCHANGED heap
  /\ UNCHANGED <<vmvars, Session, globalVar, eventQ, inEventQueue, ctl, last, dispatched, nemit>>

\* the arguments are a list of at most MaxLen ints, reals and strings, such
\* a list and at most MaxSel indices for q::select, or a pair
InitQ ==
  /\ LET Elems == {NewValInt64(1), NewValInt64(2), NewValReal(3, 2), NewValStr("a")}
         lists == UNION {[1..n -> Elems] : n \in 0..MaxLen}
         sels == UNION {[1..n -> {NewValInt64(i) : i \in (-1)..(MaxLen + 1)}] : n \in 0..MaxSel}
     IN Stack \in {<<[t |-> "list", data |-> d]>> \o x : d \in lists, x \in sels}
                  \cup {<<[t |-> "pair", First |-> a, Second |-> b]>> : a \in Elems, b \in Elems}
  /\ Session = <<>>
  /\ globalVar = <<>>
  /\ curframe = markTop
  /\ curexcep = NewValNull
  /\ eventQ = <<>>
  /\ inEventQueue = FALSE
  /\ pc = 0
  /\ prog = NilProg
  /\ rr = NoRR
  /\ ctl = <<>>
  /\ last = NoLast
  /\ trace = [on |-> TRUE, log |-> <<>>]
  /\ dispatched = <<>>
  /\ nemit = 0
  /\ heap = <<>>

NextQ ==
  \/ \E fn \in {"q::avg", "q::count", "q::select"} : intrinsicCall(fn)
  \/ NewIter
  \/ \E m \in {"Has", "Next", "Deref"} : IterCall(m)

SpecQ == InitQ /\ [][NextQ]_vars

-----------------------------------------------------------------------------
(* Properties of the rule runner and the event queue, checked under SpecEv *)

RuleListFns == {"Eval", "EvalWithContext", "EvalDeferred"}

EntryPoints == {"EvalConfig", "EvalGlobal", "EvalSession", "Eval", "EvalWithContext"}

Drains == {k \in 1..Len(ctl) : ctl[k].k = "drain"}

Entries == {k \in 1..Len(ctl) : ctl[k].k = "entry"}

\* C1: Eval, EvalWithContext and EvalDeferred run the rules of an event in
\* registration order; a rule is run only after every rule before it ended
\* with nextRule, and is run whenever the rule before it did; the first rule
\* that ends otherwise (return, halt, uncaught error) supplies the value or
\* error returned and no later rule runs; when every rule ends with
\* nextRule the result is null with no error.
C1_RuleChaining ==
  \A k \in Entries :
    ctl[k].fn \in RuleListFns =>
      LET fr == ctl[k]
          n == Len(fr.hist)
      IN /\ \A j \in 1..n : fr.hist[j].p = fr.list[j]
         /\ \A j \in 1..(n - 1) : fr.hist[j].how = "next"
         /\ fr.at \in {"start", "run"} =>
               /\ n = fr.i - 1
               /\ n > 0 => fr.hist[n].how = "next"
         /\ (fr.at = "ret" /\ Len(fr.list) > 0) =>
               /\ n > 0
               /\ IF fr.hist[n].how = "next"
                  THEN n = Len(fr.list) /\ fr.res = [v |-> NewValNull, err |-> NoErr]
                  ELSE fr.res = [v |-> fr.hist[n].v, err |-> fr.hist[n].err]
         /\ (fr.at = "ret" /\ Len(fr.list) = 0) => fr.res = [v |-> NewValNull, err |-> NoErr]

\* the first rule ended with nextRule, the second returned 7, which is the result
C1_Witness ==
  \E k \in Entries :
    /\ ctl[k].fn \in RuleListFns /\ ctl[k].at = "ret"
    /\ Len(ctl[k].hist) = 2
    /\ ctl[k].hist[1].how = "next" /\ ctl[k].hist[2].how = "done"
    /\ ctl[k].res = [v |-> NewValInt64(7), err |-> NoErr]

\* C3: of two events enqueued on the evaluator, by the emit instruction or by
\* the host's EmitEvent, the one enqueued first is handed to EvalDeferred
\* first, and no event is handed to it twice: the ids dispatched, which
\* number the events in the order of their enqueueing, only grow.
C3_FifoOnce ==
  \A i, j \in 1..Len(dispatched) : i < j => dispatched[i] < dispatched[j]

\* three events were dispatched and the queue is empty
C3_Witness == Len(dispatched) = 3 /\ eventQ = <<>>

\* C4: at most one drain is active: a drainEventQueue called during a drain
\* returns without dispatching, an emit of a deferred rule only appends to
\* the queue, EvalDeferred starts no drain, and the flag inEventQueue is set
\* exactly while a drain runs.
C4_OneDrain ==
  /\ [](/\ Cardinality(Drains) <= 1
        /\ inEventQueue <=> Drains # {}
        /\ \A k \in Entries :
             /\ ctl[k].drain = "skipped" => \E j \in Drains : j < k
             /\ ctl[k].fn = "EvalDeferred" =>
                   ctl[k].drain = "none" /\ k > 1 /\ ctl[k - 1].k = "drain")
  /\ [][/\ (Len(ctl) > 0 /\ Top.k = "entry" /\ inEventQueue) =>
             /\ dispatched' = dispatched
             /\ Len(ctl') <= Len(ctl)
             /\ Len(eventQ') >= Len(eventQ)
             /\ SubSeq(eventQ', 1, Len(eventQ)) = eventQ
        /\ dispatched' # dispatched =>
             (Len(ctl) > 0 /\ Top.k = "drain" /\ Len(ctl) > 1 /\ ctl[Len(ctl) - 1].drain = "ran")]_vars

\* an Eval called from the host's OnEventError, during a drain, has called
\* drainEventQueue, which left the queued events alone
C4_Witness ==
  \E k \in Entries : ctl[k].drain = "skipped" /\ eventQ # <<>> /\ inEventQueue

\* C5: when EvalConfig, EvalGlobal, EvalSession, Eval or EvalWithContext
\* is about to return to the host (no drain was in progress when the host
\* called) and its rules have emitted events, drainEventQueue has been
\* invoked and every event emitted during the call has been dispatched.
C5_DrainBeforeReturn ==
  (/\ Len(ctl) = 1 /\ Top.k = "entry" /\ Top.at = "ret"
   /\ Top.fn \in EntryPoints
   /\ nemit > Top.n0
   /\ Top.fn \in Draining => Top.drain # "none")
  => /\ Top.drain = "ran"
     /\ \A id \in (Top.n0 + 1)..nemit : \E i \in 1..Len(dispatched) : dispatched[i] = id

\* C6: once the host's OnEventError has answered StopAndClear to a failing
\* deferred event, no further event is dispatched in that drain and the
\* queue is empty when the drain ends.
C6_StopAndClear ==
  [][(\E k \in Drains : ctl[k].status = EventContextStopAndClear /\ ctl[k].reported # <<>>) =>
       /\ dispatched' = dispatched
       /\ (\A k \in 1..Len(ctl') : ctl'[k].k # "drain") => eventQ' = <<>>]_vars

\* the answer StopAndClear was given while events were still queued
C6_Witness ==
  \E k \in Drains :
    /\ ctl[k].status = EventContextStopAndClear /\ ctl[k].reported # <<>>
    /\ ctl[k].at = "stop" /\ eventQ # <<>>

\* C7: once the host's OnEventError has answered Pause to a failing deferred
\* event, no further event is dispatched in that drain and the events not
\* yet dispatched stay in the queue, in their order; every dispatch, of
\* this drain or of a later one, takes the event at the head of the queue.
C7_Pause ==
  [][/\ (\E k \in Drains : ctl[k].status = EventContextPuase /\ ctl[k].reported # <<>>) =>
          (dispatched' = dispatched /\ eventQ' = eventQ)
     /\ dispatched' # dispatched =>
          /\ eventQ # <<>>
          /\ dispatched' = Append(dispatched, Head(eventQ).id)
          /\ eventQ' = Tail(eventQ)]_vars

\* the answer Pause was given while two events were still queued
C7_Witness ==
  \E k \in Drains :
    /\ ctl[k].status = EventContextPuase /\ ctl[k].reported # <<>>
    /\ ctl[k].at = "stop" /\ Len(eventQ) >= 2

\* C8: when the host's OnEventError answers Continue to a failing deferred
\* event, the failing event is no longer in the queue, the drain goes on
\* with the events queued after it, in order, and ends only when the queue
\* is empty.
C8_Continue ==
  /\ [](\A k \in Drains :
          ctl[k].status = EventContextContinue =>
            /\ ctl[k].at # "stop"
            /\ \A i \in 1..Len(eventQ) :
                 /\ eventQ[i].id > ctl[k].cur
                 /\ \A r \in 1..Len(ctl[k].reported) : eventQ[i].id # ctl[k].reported[r])
  /\ [][(/\ Len(ctl) > 0 /\ Top.k = "drain" /\ Top.status = EventContextContinue
         /\ ctl' = SubSeq(ctl, 1, Len(ctl) - 1)) => eventQ = <<>>]_vars

\* after a failure answered by Continue, a later event of the queue has been
\* dispatched in the same drain
C8_Witness ==
  \E k \in Drains :
    /\ ctl[k].status = EventContextContinue /\ ctl[k].reported # <<>>
    /\ ctl[k].cur > ctl[k].reported[1]

-----------------------------------------------------------------------------
(* The scenario of two chained rules and an emitted event, checked under   *)
(* SpecSc on the history of the call                                       *)

IsRun(x) == x.op = "run"

IsEmit(x) == x.op = "emit"

IsEnd(x) == x.op = "end"

Runs == SelectSeq(trace.log, IsRun)

Emits == SelectSeq(trace.log, IsEmit)

Ends == SelectSeq(trace.log, IsEnd)

\* Eval of "e" has returned to the host, and in it rule A, run first, made
\* the only emit of the call, of "child"
AEmitsChild ==
  /\ Idle /\ last.fn = "Eval"
  /\ Len(trace.log) >= 3 /\ Len(Emits) = 1
  /\ trace.log[1].op = "run" /\ trace.log[1].prog = "A"
  /\ \E j \in 2..Len(trace.log) :
       /\ trace.log[j].op = "emit" /\ trace.log[j].name = "child"
       /\ \A i \in 2..j : trace.log[i].op # "end"

\* the rule p ended by a return instruction, with value v
ReturnsFrom(p, v) ==
  \E i \in 1..(Len(trace.log) - 1) :
    /\ trace.log[i].op = "return"
    /\ trace.log[i + 1] = [op |-> "end", prog |-> p, how |-> "done", v |-> v]

\* C2 as stated: with rules A then B on event e, where A emits "child" and
\* returns and B returns 7, evaluating e runs A, then B, then the deferred
\* rule of "child", and returns 7.
C2_Original ==
  (/\ AEmitsChild
   /\ Ends[1].how = "done"
   /\ \E v \in {NewValInt64(7), NewValStr("child")} : ReturnsFrom("A", v)
   /\ \A j \in 1..Len(Ends) : Ends[j].prog = "B" => (Ends[j].how = "done" /\ Ends[j].v = NewValInt64(7)))
  => /\ Len(Runs) = 3
     /\ Runs[1].prog = "A" /\ Runs[2].prog = "B" /\ Runs[3].prog = "K"
     /\ last.v = NewValInt64(7)

\* C2 amended: with rules A then B on event e, where A emits "child" and
\* ends with nextRule and B returns 7, evaluating e runs A, then B, then,
\* from the drain, the deferred rule of "child", and returns 7.
C2_Chained ==
  (/\ AEmitsChild
   /\ Ends[1].how = "next"
   /\ Len(Ends) >= 2 /\ Ends[2].prog = "B"
   /\ ReturnsFrom("B", NewValInt64(7)))
  => /\ Len(Runs) = 3
     /\ Runs[1].prog = "A" /\ Runs[2].prog = "B" /\ Runs[3].prog = "K"
     /\ Runs[1].fn = "Eval" /\ Runs[2].fn = "Eval" /\ Runs[3].fn = "EvalDeferred"
     /\ last.v = NewValInt64(7) /\ last.err = NoErr

\* the scenario has run to its end
C2_Witness ==
  /\ AEmitsChild
  /\ Ends[1].how = "next"
  /\ Len(Ends) = 3 /\ Ends[2].prog = "B"
  /\ ReturnsFrom("B", NewValInt64(7))
  /\ Ends[3].prog = "K"
  /\ last.v = NewValInt64(7)

-----------------------------------------------------------------------------
(* Properties of the interpreter, checked under Spec *)

\* the handler an error raised now is caught by: the innermost handler of
\* the innermost active script frame that has one.  The active frames are
\* the current one and the callers saved in the frame markers of the stack.
Guarded(ff) == ff.excep # <<>> /\ ff.prog # NilProg /\ ff.ftype # ftypeSIter

GuardedCallers == {i \in 1..Len(Stack) : Stack[i].t = "frame" /\ Guarded(Stack[i].f)}

Catcher ==
  IF Guarded(curframe)
  THEN curframe.excep[Len(curframe.excep)]
  ELSE LET i == CHOOSE x \in GuardedCallers : \A y \in GuardedCallers : y <= x
       IN Stack[i].f.excep[Len(Stack[i].f.excep)]

\* C9: when an error is caught, execution resumes at the handler's pc with
\* the stack cut back to exactly the size pushException recorded for that
\* handler, whatever operands and frames lay above it.
C9_CatchRestoresStack ==
  [][(/\ Len(ctl) > 0 /\ Top.k = "entry" /\ Top.at = "run"
      /\ rr # NoRR /\ rr.rstate = rstateInterrupt
      /\ rr' = NoRR /\ Len(ctl') = Len(ctl) /\ ctl'[Len(ctl')].at = "run")
     => /\ Len(Stack') = Catcher.stackSize
        /\ Stack' = SubSeq(Stack, 1, Catcher.stackSize)
        /\ pc' = Catcher.handlerPc]_vars

\* an error was caught by a handler of a caller: frames were unwound
C9_Witness ==
  /\ Len(ctl) > 0 /\ Top.k = "entry" /\ Top.at = "run" /\ rr = NoRR
  /\ Top.caught = "frames"
  /\ curexcep # NewValNull

\* C10: when a rule fails and no frame up to the rule frame has a handler,
\* the entry point returns null and the error, no later rule of the event
\* runs, and the evaluator is left on the top frame with an empty stack.
C10_Uncaught ==
  /\ \A k \in Entries :
       LET fr == ctl[k]
           n == Len(fr.hist)
       IN (n > 0 /\ fr.hist[n].how = "err") =>
            /\ fr.at = "ret" /\ fr.i = n
            /\ fr.res.v = NewValNull
            /\ fr.res.err # NoErr /\ fr.res.err = fr.hist[n].err
            /\ Stack = <<>> /\ isTop(curframe)
  /\ (Idle /\ last.err # NoErr) =>
       (last.v = NewValNull /\ Stack = <<>> /\ isTop(curframe))

\* the first of two rules failed inside a call, uncaught: the second was not run
C10_Witness ==
  /\ Idle /\ last.fn = "Eval" /\ last.err # NoErr
  /\ "bt" \in DOMAIN last.err /\ last.err.bt.frames >= 2
  /\ last.err.symbol = "F"

\* the error an sCall or vCall raises on a wrong number of arguments
ArityMismatch ==
  /\ rr # NoRR /\ rr.rstate = rstateInterrupt
  /\ rr.e.msg = "script function call, argument number mismatch"

\* C20: an sCall whose argument count differs from the arity of the target
\* fails before any instruction of the target executes, and the failure is
\* attributed to the calling program at the pc of the call: the program and
\* pc of the error are those of the frame that made the call, saved in the
\* frame marker of the frame the call set up.
C20_ArityError ==
  ArityMismatch =>
    /\ curframe.pc = 0 /\ curframe.excep = <<>>
    /\ rr.prog = prevfuncframe(Stack, curframe).prog
    /\ rr.pc = prevfuncframe(Stack, curframe).pc - 1

-----------------------------------------------------------------------------
(* Properties of locals, closures and calls back, checked under SpecCl *)

\* the closure the current frame runs
ThisClosure == heap[curframe.closure.id]

\* C11: a closure g created by newClosure in a frame of f, with an upvalue
\* that captures f's local x, holds the value x had when newClosure
\* executed; every loadUpvalue executed in a call of g reads the value the
\* closure holds, and no step but a storeUpvalue executed in a call of that
\* closure changes it: not a later storeLocal to x in f, nor the return of f.
C11_Capture ==
  [][/\ bcNewClosure(1) =>
          /\ Len(heap') = Len(heap) + 1
          /\ heap'[Len(heap')].upvalue = <<At(Stack, curframe.framep + 1 + 1)>>
          /\ top0(Stack') = newValSFunc(Len(heap'))
     /\ bcLoadUpvalue(0) => top0(Stack') = ThisClosure.upvalue[1]
     /\ \A c \in 1..Len(heap) :
          heap'[c] # heap[c] =>
            (Running /\ curframe.closure = [ct |-> "script", id |-> c] /\ Len(Stack') = Len(Stack) - 1)]_vars

\* f has returned and g, called by R, has read the null x held when it was
\* captured (nothing else loads a null in g)
C11_Witness ==
  /\ Running /\ prog = "g" /\ curframe.ftype = ftypeSFunc
  /\ prevfuncframe(Stack, curframe).ftype = ftypeRule
  /\ Len(Stack) > Base(curframe) /\ top0(Stack) = NewValNull
  /\ ThisClosure.upvalue = <<NewValNull>>

\* C12: a storeUpvalue executed during a call of g writes the upvalue of
\* the closure object the call runs, and a loadUpvalue in any later call of
\* g made through a value holding the same closure (the copy an intrinsic
\* keeps of its argument, for one) reads what was stored last.
C12_SharedUpvalue ==
  [][/\ bcStoreUpvalue(0) =>
          /\ heap'[curframe.closure.id].upvalue = <<top0(Stack)>>
          /\ \A c \in 1..Len(heap) : c # curframe.closure.id => heap'[c] = heap[c]
     /\ (bcLoadUpvalue(0) /\ Top.k = "sfunc") =>
          (top0(Stack') = heap[Top.sfunc].upvalue[1] /\ heap' = heap)]_vars

\* in its second call by the intrinsic, with argument 6, g has read the 5
\* that its first call, with argument 5, stored in the upvalue
C12_Witness ==
  /\ Running /\ prog = "g" /\ Top.k = "sfunc"
  /\ ctl[Len(ctl) - 1].calls = 2
  /\ At(Stack, curframe.framep + 1) = NewValInt64(6)
  /\ Len(Stack) > Base(curframe) /\ top0(Stack) = NewValInt64(5)

\* C13: storeLocal i executed in frame F writes the top of the stack to the
\* slot fp(F) + 1 + i, which lies above F's callee slot and is no frame
\* marker, pops it, and changes no other slot: no slot of a frame below F
\* (callee slot, arguments, locals, marker) changes.
C13_StoreLocal ==
  [][\A i \in 0..1 :
       bcStoreLocal(i) =>
         LET slot == curframe.framep + 1 + i
         IN /\ Len(Stack') = Len(Stack) - 1
            /\ slot > curframe.framep /\ slot < Len(Stack')
            /\ At(Stack, slot).t # "frame"
            /\ At(Stack', slot) = top0(Stack)
            /\ \A j \in 0..(Len(Stack') - 1) : j # slot => At(Stack', j) = At(Stack, j)]_vars

\* g, called by R, has stored the 7 of its upvalue to its argument, above
\* the frame of R
C13_Witness ==
  /\ Running /\ prog = "g" /\ curframe.ftype = ftypeSFunc
  /\ prevfuncframe(Stack, curframe).ftype = ftypeRule
  /\ At(Stack, curframe.framep + 1) = NewValInt64(7)

\* runP has returned Done for a halt: the frame that executed it is still
\* the current frame
HaltDone == rr # NoRR /\ isDone(rr) /\ curframe.prog # NilProg

\* C18: halt and nextRule end the current rule run at whatever call depth
\* they execute, in the rule, in a script function it calls or in a script
\* closure an intrinsic calls back: the run result they make is the one
\* runRuleImpl receives, it ends the rule with Done and null, or with
\* NextRule, and is never turned into an error or a failure.
C18_HaltNextRule ==
  /\ (HaltDone \/ (rr # NoRR /\ isNextRule(rr))) =>
        (Top.k = "entry" /\ Top.at = "run" /\ (HaltDone => top0(Stack) = NewValNull))
  /\ \A k \in 1..Len(ctl) : ctl[k].k # "panic"
  /\ \A k \in Entries : \A j \in 1..Len(ctl[k].hist) :
        ctl[k].hist[j].how = "err" => ctl[k].hist[j].err # NoErr

\* C19: a call of a script closure by runSFunc that ends with a return
\* leaves the stack at the size it had when runSFunc was called.
C19_CallbackBalance ==
  [][(/\ Len(ctl) > 0 /\ Top.k = "sfunc"
      /\ rr # NoRR /\ isDone(rr) /\ curframe.prog = NilProg
      /\ Len(ctl') = Len(ctl) - 1)
     => Len(Stack') = Top.size]_vars

-----------------------------------------------------------------------------
(* Properties of the session and the global store, checked under SpecSt *)

\* the run has failed with the error msg
Failed(r, msg) == r # NoRR /\ r.rstate = rstateInterrupt /\ r.e.msg = msg

\* C14: every value of the global store is null, a bool, an int, a real or
\* a string; a setGlobal or storeGlobal of a container fails and leaves the
\* store as it was, and a storeGlobal or loadGlobal at an index that does
\* not exist fails and leaves it as it was.
C14_GlobalImmutable ==
  /\ [](\A i \in 1..Len(globalVar) : globalVar[i].t \in {"null", "bool", "int", "real", "str"})
  /\ [][/\ (bcSetGlobal /\ top0(Stack).t = "list") =>
             (Failed(rr', "global varaible must store immutable type") /\ globalVar' = globalVar)
        /\ \A i \in 0..MaxStore :
             /\ (bcStoreGlobal(i) /\ (top0(Stack).t = "list" \/ i >= Len(globalVar))) =>
                  (Failed(rr', "global variable storing error") /\ globalVar' = globalVar)
             /\ (bcLoadGlobal(i) /\ i >= Len(globalVar)) =>
                  (Failed(rr', "global variable loading error") /\ globalVar' = globalVar /\ Stack' = Stack)]_vars

\* a storeGlobal executed by a rule has failed while the store holds a value
C14_Witness ==
  /\ Failed(rr, "global variable storing error")
  /\ Len(globalVar) >= 1 /\ prog # "G"

\* C15: loadSession i and storeSession i with i at or beyond the length of
\* the session fail and leave the session as it was; setSession appends
\* exactly one slot, the value on top of the stack; no instruction makes
\* the session shorter: only EvalSession, called by the host, resets it.
C15_Session ==
  [][/\ \A i \in 0..MaxStore :
          ((bcLoadSession(i) \/ bcStoreSession(i)) /\ i >= Len(Session)) =>
            (Failed(rr', "session variable is not existed") /\ Session' = Session /\ Stack' = Stack)
     /\ bcSetSession => Session' = Append(Session, top0(Stack))
     /\ Len(Session') < Len(Session) =>
          (Idle /\ Len(ctl') = 1 /\ ctl'[1].fn = "EvalSession" /\ Session' = <<>>)
     /\ ~Idle => Len(Session') >= Len(Session)]_vars

\* a store to the session variable 1 has failed on a session of one variable
C15_Witness ==
  /\ Failed(rr, "session variable is not existed")
  /\ Len(Session) = 1
  /\ Len(Stack) > Base(curframe)

-----------------------------------------------------------------------------
(* Script iterators *)

\* the script iterators of the heap
Iterators == {i \in 1..Len(heap) : "ys" \in DOMAIN heap[i]}

\* the values the body of iterator i has passed to yield
Yielded(i) == [k \in 1..Len(heap[i].ys) |-> heap[i].ys[k].v]

\* the body of iterator i has executed a yield that runSIterRest has not
\* yet seen
YieldPending(i) ==
  Len(ctl) > 0 /\ Top.k = "siter" /\ Top.id = i /\ rr # NoRR /\ rr.rstate = rstateYield

\* nextIterator resumes the body of the iterator on the top of the stack
Resumes == bcNextIterator /\ Len(ctl') > Len(ctl)

\* C16: driving a script iterator by setUpIterator and then nextIterator
\* hands to the consumer exactly the values its body passes to yield, in
\* order and each once: the values given to onYield are those yielded, the
\* one of a yield still pending excepted, the cached value is the last of
\* them, and a resume continues right after the last yield.  Once the body
\* has returned the iterator is terminal: nextIterator does not resume it
\* and nothing of it changes any more
C16_IterLaw ==
  [][/\ \A i \in Iterators' :
          /\ Yielded(i)' = IF YieldPending(i)'
                           THEN Append(heap'[i].out, top0(Stack'))
                           ELSE heap'[i].out
          /\ heap'[i].state = "live" => heap'[i].cur = heap'[i].out[Len(heap'[i].out)]
     /\ Resumes =>
          LET siter == heap[top0(Stack).id]
          IN /\ siter.state = "live"
             /\ curframe'.ftype = ftypeSIter
             /\ prog' = siter.prog
             /\ pc' = siter.ys[Len(siter.ys)].at + 1
     /\ \A i \in Iterators :
          heap[i].state = "done" =>
            /\ heap'[i] = heap[i]
            /\ ~(Len(ctl') > Len(ctl) /\ ctl'[Len(ctl')].k = "siter" /\ ctl'[Len(ctl')].id = i)
    ]_vars

\* rule C has been handed 0 and then 1, which the body yielded in this
\* order, and nextIterator has answered true
C16_Witness ==
  /\ Len(ctl) > 0 /\ Top.k = "entry" /\ Running /\ prog = "C"
  /\ Len(heap) = 1
  /\ heap[1].out = <<NewValInt64(0), NewValInt64(1)>>
  /\ heap[1].cur = NewValInt64(1)
  /\ top0(Stack) = NewValBool(TRUE)

\* runSIterRest ends a run of the body that failed
IterFail ==
  /\ Len(ctl) > 0 /\ Top.k = "siter" /\ rr # NoRR
  /\ rr.rstate = rstateInterrupt
  /\ runSIterRest

\* C17: an error of the body of a script iterator, or of a function it
\* calls, unwinds the iterator's own stack down to the script-iterator frame
\* and no further, and is the error of the setUpIterator or nextIterator:
\* the consumer has the stack and the frame, handlers included, it had at
\* that instruction, so that its handler, if it has one, catches the error
C17_IterError ==
  [][IterFail =>
       /\ heap'[Top.id].frame.ftype = ftypeSIter
       /\ heap'[Top.id].frame.framep = 0
       /\ Len(heap'[Top.id].stack) \in (prevframepos(heap'[Top.id].frame) + 1)..Len(Stack)
       /\ heap'[Top.id].stack = SubSeq(Stack, 1, Len(heap'[Top.id].stack))
       /\ FramesIn(heap'[Top.id].stack) + 1 = 1
       /\ Stack' = Top.oldStack
       /\ [curframe' EXCEPT !.pc = 0] = [Top.frame EXCEPT !.pc = 0]
       /\ ctl' = SubSeq(ctl, 1, Len(ctl) - 1)
       /\ rr'.rstate = rstateInterrupt
       /\ rr'.prog = Top.prog /\ rr'.pc = Top.pc /\ prog' = Top.prog /\ pc' = Top.pc
       /\ rr'.e.msg = rr.e.msg
       /\ unwindForExcep(Stack', curframe', [k |-> "top"]).ok = (Top.frame.excep # <<>>)
    ]_vars

\* the handler of rule C has caught the error of an intrinsic that a
\* function called by the body called, in a nextIterator
C17_Witness ==
  /\ Len(ctl) > 0 /\ Top.k = "entry" /\ Running /\ prog = "C" /\ pc = MaxPc
  /\ curexcep = NewValStr("intrinsic failed")
  /\ Len(heap) = 1
  /\ heap[1].state = "err"
  /\ Len(heap[1].out) = 1

-----------------------------------------------------------------------------
(* Comparisons *)

\* the kinds of the constants a program loads
SameKind(lhs, rhs) == lhs.t = rhs.t /\ lhs.t \in {"null", "bool", "int", "str"}

\* C21: == and != of two operands of one kind give a bool, true for ==
\* exactly when the two payloads are equal and for != exactly when they
\* differ; null == null is true and two bools compare without an error
C21_EqSameKind ==
  [][\A op \in {"bcEq", "bcNe"} :
       (bcCmp(op) /\ SameKind(top1(Stack), top0(Stack))) =>
         /\ rr' = NoRR
         /\ top0(Stack') = NewValBool((top1(Stack) = top0(Stack)) = (op = "bcEq"))
    ]_vars

-----------------------------------------------------------------------------
(* The backtrace of a reported error *)

\* C22: the error reported for an uncaught failure lists at most 10 frames
\* of its backtrace, and has the truncation marker exactly when the
\* backtrace has more than 10 frames
C22_Backtrace ==
  [][runRuleImplFail =>
       LET u == unwindForExcep(Stack, curframe, [k |-> "top"])
       IN /\ ctl'[Len(ctl')].res.err = doErr(u.bt, rr.prog, rr.pc, rr.e)
          /\ ctl'[Len(ctl')].res.err.bt.frames <= 10
          /\ ctl'[Len(ctl')].res.err.bt.marker = (Len(u.bt) > 10)
    ]_vars

-----------------------------------------------------------------------------
(* Configuration commands *)

\* the last call of the host the trace has recorded
LastCall == trace.log[Len(trace.log)]

\* C23: configCommandWithAttr of n arguments hands to the host's
\* ConfigCommand the operand below the name as attr and takes the n
\* arguments, the name and the attribute off the stack; configCommand hands
\* it a null attr and takes n + 1 values off
C23_ConfigCommand ==
  [][\A pcnt \in 0..(MaxOperand - 1) :
       /\ bcConfigCommand("bcConfigCommandWithAttr", pcnt, NoErr) =>
            /\ LastCall'.op = "ConfigCommand"
            /\ LastCall'.name = topN(Stack, pcnt).s
            /\ LastCall'.attr = topN(Stack, pcnt + 1)
            /\ Stack' = popN(Stack, pcnt + 2)
       /\ bcConfigCommand("bcConfigCommand", pcnt, NoErr) =>
            /\ LastCall'.op = "ConfigCommand"
            /\ LastCall'.name = topN(Stack, pcnt).s
            /\ LastCall'.attr = NewValNull
            /\ Stack' = popN(Stack, pcnt + 1)
    ]_vars

-----------------------------------------------------------------------------
(* Query functions and the pair iterator, checked under SpecQ *)

\* the list a query function was given
Given == Stack[1].data

\* the sum of a sequence of ints
RECURSIVE SumOf(_)
SumOf(d) == IF d = <<>> THEN 0 ELSE Head(d).i + SumOf(Tail(d))

\* C24: q::avg of a list of ints that is not empty is the real quotient of
\* the sum of all its elements by their number
C24_Avg ==
  (last.fn = "q::avg" /\ Given # <<>> /\ \A k \in 1..Len(Given) : Given[k].t = "int") =>
    /\ last.err = NoErr
    /\ last.v.t = "real"
    /\ last.v.den > 0
    /\ last.v.num * Len(Given) = SumOf(Given) * last.v.den

\* C25: q::count of a list is the number of its elements, of whatever kind
C25_Count ==
  last.fn = "q::count" => (last.err = NoErr /\ last.v = NewValInt64(Len(Given)))

\* the elements of the given list at the indices, among those given to
\* q::select, that are in 0..len-1, in the order of the arguments
Selected ==
  LET InRange(v) == v.i >= 0 /\ v.i < Len(Given)
      idxs == SelectSeq(Tail(Stack), InRange)
  IN [k \in 1..Len(idxs) |-> At(Given, idxs[k].i)]

\* C26: q::select of a list and integer indices does not fail nor crash, and
\* is the list of the elements at the indices that are in 0..len-1, in the
\* order of the arguments
C26_Select ==
  Stack[1].t = "list" =>
    /\ ctl = <<>>
    /\ last.fn = "q::select" => (last.err = NoErr /\ last.v = [t |-> "list", data |-> Selected])

\* the number of calls of Next before the k-th call of the pair iterator
NextsBefore(k) == Cardinality({j \in 1..(k - 1) : trace.log[j].op = "Next"})

\* C27: a pair iterator stands on (0, First), after one Next on
\* (1, Second), and after two or more Next on nothing: Has and the answer of
\* Next tell whether it stands on a member, Deref gives that member with its
\* index, or else fails with an out-of-bound error; the pair does not change
C27_PairIter ==
  Len(heap) = 1 =>
    /\ heap[1].p = Stack[1]
    /\ \A k \in 1..Len(trace.log) :
         LET o == trace.log[k]
             n == NextsBefore(k)
         IN /\ o.op = "Has" => o.has = (n < 2)
            /\ o.op = "Next" => o.has = (n + 1 < 2)
            /\ o.op = "Deref" =>
                 o.r = IF n = 0 THEN [key |-> NewValInt64(0), val |-> Stack[1].First, e |-> NoErr]
                       ELSE IF n = 1 THEN [key |-> NewValInt64(1), val |-> Stack[1].Second, e |-> NoErr]
                       ELSE [key |-> NewValNull, val |-> NewValNull, e |-> [msg |-> "iterator out of bound"]]

\* a pair of two different members has been iterated to its end by Deref
\* and Next, and a further Deref has failed
C27_Witness ==
  /\ Len(heap) = 1 /\ Stack[1].First # Stack[1].Second
  /\ Len(trace.log) = 5
  /\ trace.log[1].op = "Deref" /\ trace.log[1].r.val = Stack[1].First
  /\ trace.log[2].op = "Next" /\ trace.log[2].has
  /\ trace.log[3].op = "Deref" /\ trace.log[3].r.val = Stack[1].Second
  /\ trace.log[4].op = "Next" /\ ~trace.log[4].has
  /\ trace.log[5].op = "Deref" /\ trace.log[5].r.e # NoErr

-----------------------------------------------------------------------------
(* Unwinding across frames, checked under SpecUw *)

\* where the frame an error raised now is caught in was saved: the marker
\* of the innermost caller that is a script frame with a handler, or past
\* the stack when that frame is the current one
CatchPos ==
  IF Guarded(curframe)
  THEN Len(Stack) + 1
  ELSE CHOOSE x \in GuardedCallers : \A y \in GuardedCallers : y <= x

CatchFrame == IF Guarded(curframe) THEN curframe ELSE Stack[CatchPos].f

\* C28: a failing operation discards frames innermost-first up to the first
\* script frame that has a handler; execution resumes in that frame, as the
\* current frame, at the handlerPc of its most recently pushed handler, which
\* is removed from its list; the native-function, method and intrinsic frames
\* passed on the way are gone from the stack and are never the frame resumed.
C28_Unwind ==
  [][(/\ Returned /\ ~isDone(rr) /\ ~isNextRule(rr)
      /\ (Guarded(curframe) \/ GuardedCallers # {}))
     => LET F == CatchFrame
            n == Len(F.excep)
        IN /\ rr' = NoRR /\ ctl'[Len(ctl')].at = "run"
           /\ curframe'.framep = F.framep /\ curframe'.ftype = F.ftype
           /\ curframe'.ftype \in {ftypeRule, ftypeScript, ftypeSFunc}
           /\ prog' = F.prog /\ prog' # NilProg
           /\ pc' = F.excep[n].handlerPc
           /\ curframe'.excep = SubSeq(F.excep, 1, n - 1)
           /\ Len(Stack') < CatchPos
           /\ Stack' = SubSeq(Stack, 1, Len(Stack'))]_vars

\* a native function or a method failed under a rule that had pushed two
\* handlers: its frame was discarded and the rule resumed at the later one
C28_Witness ==
  /\ Len(ctl) > 0 /\ Top.k = "entry" /\ Top.at = "run" /\ rr = NoRR
  /\ Top.caught = "native"
  /\ curframe.ftype = ftypeRule /\ Len(curframe.excep) = 1
  /\ curframe.excep[1].handlerPc = MaxPc - 1 /\ pc = MaxPc

-----------------------------------------------------------------------------
(* Handlers and errors in re-entered frames, checked under SpecRe *)

\* the interpreter loop has returned an error to its driver
RunFailed == rr # NoRR /\ rr.rstate = rstateInterrupt

\* C29: an error raised while the current frame is a script frame that has
\* pushed a handler is caught by that handler, whatever the kind of the frame
\* (a generator driven by setUp and next, a closure called back by native
\* code): execution resumes in the frame at handlerPc and the error is not
\* handed to the driver's caller.
C29_HandlerCatches ==
  [][(/\ RunFailed /\ curframe.prog # NilProg /\ curframe.excep # <<>>)
     => /\ rr' = NoRR
        /\ ctl' = ctl
        /\ prog' = curframe.prog
        /\ pc' = curframe.excep[Len(curframe.excep)].handlerPc
        /\ curframe'.framep = curframe.framep
        /\ curframe'.excep = SubSeq(curframe.excep, 1, Len(curframe.excep) - 1)]_vars

\* C30: when a call of a script closure from native code ends in an error,
\* the stack is the one of the moment of the call and the current frame is
\* again the frame of the native caller, also when the closure had called
\* itself and the error was raised in an inner invocation.
C30_CallbackRestores ==
  [][(/\ Len(ctl) > 1 /\ Top.k = "sfunc" /\ RunFailed
      /\ Len(ctl') = Len(ctl) - 1 /\ ctl'[Len(ctl')].k = "intrinsic")
     => /\ ctl'[Len(ctl')].got.err # NoErr
        /\ Stack' = SubSeq(Stack, 1, Top.size)
        /\ [curframe' EXCEPT !.pc = 0] = [Top.frame EXCEPT !.pc = 0]]_vars

-----------------------------------------------------------------------------
(* The effect of a call on the stack and on the frame, checked under SpecCa *)

\* the frame record but for the pc, which the call advances
Rec(ff) == [ff EXCEPT !.pc = 0]

\* the instruction executed by this step is a call with n arguments that
\* runs no script: an intrinsic, a native function or a method
NativeCall(n) ==
  /\ Running /\ rr' = NoRR
  /\ \/ \E f \in {NewValInt64(0), newValNFunc, newValMFunc} : bcICall(n, f, NoErr)
     \/ Len(Stack) > n /\ topN(Stack, n).t = "closure"
          /\ topN(Stack, n).ct \in {"native", "method"} /\ bcVCall(n)

\* this step enters a script function or a script closure with n arguments
ScriptCall(n) ==
  /\ Running /\ rr' = NoRR /\ Depth' = Depth + 1
  /\ bcSCall(n) \/ bcVCall(n)

\* this step returns from a script function or closure to its caller
ScriptReturn ==
  /\ Running /\ curframe.ftype \in {ftypeScript, ftypeSFunc} /\ bcReturn

\* C31: a call with n arguments that completes normally replaces the callee
\* slot and the n argument slots by one result, so that the stack is n
\* shorter than before the call, and leaves the caller's frame record as it
\* was.  For a call that runs a script the statement is split over the step
\* that enters the callee (the slots stay, the caller's record is saved in
\* the marker above them), the steps of the callee (which leave the marker
\* and what lies below the callee slot alone) and the step that returns.
C31_CallEffect ==
  [][/\ \A n \in 0..1 :
          NativeCall(n) =>
            /\ Len(Stack') = Len(Stack) - n
            /\ SubSeq(Stack', 1, Len(Stack') - 1) = SubSeq(Stack, 1, Len(Stack) - n - 1)
            /\ Rec(curframe') = Rec(curframe)
     /\ \A n \in 0..1 :
          ScriptCall(n) =>
            /\ Stack' = Append(Stack, newValFrame(top0(Stack').f))
            /\ Rec(top0(Stack').f) = Rec(curframe)
            /\ curframe'.framep = Len(Stack) - n - 1 /\ curframe'.farg = n
     /\ (Running /\ rr' = NoRR /\ Depth' = Depth /\ ~isTop(curframe)) =>
            /\ curframe'.framep = curframe.framep /\ curframe'.farg = curframe.farg
            /\ Len(Stack') > prevframepos(curframe)
            /\ At(Stack', prevframepos(curframe)) = At(Stack, prevframepos(curframe))
            /\ SubSeq(Stack', 1, curframe.framep) = SubSeq(Stack, 1, curframe.framep)
     /\ ScriptReturn =>
            /\ Len(Stack') = curframe.framep + 1
            /\ SubSeq(Stack', 1, curframe.framep) = SubSeq(Stack, 1, curframe.framep)
            /\ top0(Stack') = top0(Stack)
            /\ Rec(curframe') = Rec(prevfuncframe(Stack, curframe))]_vars

\* the closure g, called by the rule with one argument, has called an
\* intrinsic and returned its result: the rule holds this one value in place
\* of the closure and its argument
C31_Witness ==
  /\ Len(ctl) > 0 /\ Top.k = "entry" /\ Top.at = "run" /\ rr = NoRR
  /\ prog = "R" /\ pc = MaxPc /\ Len(heap) = 1
  /\ Len(Stack) = Base(curframe) + 1
  /\ top0(Stack) = newValNFunc

-----------------------------------------------------------------------------
(* The layout of a frame on the stack, checked under SpecIt *)

\* what the slot at framep holds for a frame of each kind: the index of the
\* function or intrinsic, the closure, the iterator, or the null that
\* runRuleImpl pushes for a rule
CalleeSlot(v, cf) ==
  CASE cf.ftype = ftypeRule -> v = NewValNull
    [] cf.ftype \in {ftypeScript, ftypeIntrinsic} -> v.t = "int"
    [] cf.ftype = ftypeSFunc -> v = newValSFunc(cf.closure.id)
    [] cf.ftype \in {ftypeNFunc, ftypeMethod} -> v.t = "closure"
    [] cf.ftype = ftypeSIter -> v.t = "iter"
    [] OTHER -> FALSE

\* the frame cf lies on the stack s: callee, farg arguments, marker
WellLaid(s, cf) ==
  /\ cf.framep >= 0 /\ cf.farg >= 0 /\ prevframepos(cf) < Len(s)
  /\ CalleeSlot(At(s, cf.framep), cf)
  /\ \A i \in 1..cf.farg : At(s, cf.framep + i).t # "frame"
  /\ At(s, prevframepos(cf)).t = "frame"

\* every frame from cf outwards lies on s, up to the top frame
RECURSIVE EndsAtTop(_, _)
EndsAtTop(s, cf) ==
  \/ isTop(cf)
  \/ /\ WellLaid(s, cf)
     /\ EndsAtTop(SubSeq(s, 1, cf.framep), prevfuncframe(s, cf))

\* the same, up to the top frame or to the frame of a generator, whose
\* marker holds the frame of its driver, which lies on the driver's stack
RECURSIVE EndsAtTopOrIter(_, _)
EndsAtTopOrIter(s, cf) ==
  \/ isTop(cf)
  \/ /\ WellLaid(s, cf)
     /\ \/ cf.ftype = ftypeSIter
        \/ EndsAtTopOrIter(SubSeq(s, 1, cf.framep), prevfuncframe(s, cf))

\* the interpreter is executing instructions or is about to unwind: the
\* points at which a return or an unwind reads the marker
ReadsFrames == Running \/ (Len(ctl) > 0 /\ Top.k \in {"entry", "sfunc", "siter"} /\ RunFailed)

-----------------------------------------------------------------------------
(* Generators that halt or yield from a callee, checked under SpecIy *)

\* the driver of a generator takes the result of the interpreter loop and
\* goes back to the instruction that drove it
DriverReturns ==
  /\ Len(ctl) > 0 /\ Top.k = "siter" /\ rr # NoRR
  /\ Len(ctl') = Len(ctl) - 1

\* C33: when setUp or next on a generator returns, by a yield, by a return
\* or with an error, the stack is again the caller's, as it was at the call
\* but for the operands of the instruction (setUp takes its arguments, next
\* leaves its answer), the current frame is the caller's, and what the
\* generator has pushed is on the generator's own stack.
C33_DriverRestores ==
  [][DriverReturns
     => /\ Rec(curframe') = Rec(Top.frame)
        /\ Stack' \in {Top.oldStack, popN(Top.oldStack, Top.n),
                       push(Top.oldStack, NewValBool(TRUE)),
                       push(Top.oldStack, NewValBool(FALSE))}
        /\ rr.rstate = rstateYield => heap'[Top.id].stack = popN(Stack, 1)]_vars

\* C34: a yield executed in a frame that is not the frame of a generator is
\* an invariant violation: what follows it is the failure of the run, never
\* the delivery of the value to a consumer nor the return of a rule.
C34_YieldOutside ==
  [][(rr.rstate = rstateYield /\ curframe.ftype # ftypeSIter)
     => ctl'[Len(ctl')].k = "panic"]_vars

-----------------------------------------------------------------------------
(* The short-circuit jumps, checked under SpecJc *)

\* the step keeps the stack and jumps to t / pops the top and falls through
KeepAndJump(t) == Stack' = Stack /\ pc' = t
PopAndFall == Stack' = popN(Stack, 1) /\ pc' = pc + 1

\* C35 as claimed: and keeps a truthy top and jumps, pops a falsy one and
\* falls through; or keeps a falsy top and jumps, pops a truthy one and
\* falls through.
C35_Original ==
  [][\A t \in 1..MaxPc :
       /\ bcAnd(t) => IF ToBoolean(top0(Stack)) THEN KeepAndJump(t) ELSE PopAndFall
       /\ bcOr(t) => IF ~ToBoolean(top0(Stack)) THEN KeepAndJump(t) ELSE PopAndFall]_vars

\* C35: and keeps a falsy top and jumps to its target, pops a truthy one and
\* falls through; or keeps a truthy top and jumps, pops a falsy one and
\* falls through.
C35_ShortCircuit ==
  [][\A t \in 1..MaxPc :
       /\ bcAnd(t) => IF ~ToBoolean(top0(Stack)) THEN KeepAndJump(t) ELSE PopAndFall
       /\ bcOr(t) => IF ToBoolean(top0(Stack)) THEN KeepAndJump(t) ELSE PopAndFall]_vars

\* a rule has loaded false and has jumped over the rest of its code with it
C35_Witness ==
  /\ Running /\ curframe.ftype = ftypeRule
  /\ pc = MaxPc /\ Len(Stack) = Base(curframe) + 1
  /\ top0(Stack) = NewValBool(FALSE)

-----------------------------------------------------------------------------
(* The redis service: serviceHandler.onEvent *)

\* strings.ToUpper, over the command names sent by the clients of the model
ToUpper(s) ==
  CASE s = "hget" -> "HGET"
    [] s = "get" -> "GET"
    [] OTHER -> s

\* redis/util.CommandCategoryName, for the commands of the model
CommandCategoryName(c) ==
  CASE c = "HGET" -> "hash"
    [] c \in {"GET", "SET"} -> "string"

eventCommand == "redis.*"

\* the events a module of the service may have rules for
ServiceEvents ==
  {"redis.HGET", "redis.SET", "redis.GET", "redis.:hash", "redis.:string", eventCommand}

\* Module.HaveEvent: heap[1] is the module of the handler's runtime
HaveEvent(e) == e \in heap[1].events

\* the event onEvent emits: the first the module has of the command's event
\* and the category's event, the wildcard when it has neither
dispatchEvent_m(cmdName) ==
  LET cmdCatEvent == "redis.:" \o CommandCategoryName(cmdName)
      cmdEvent == "redis." \o cmdName
  IN IF HaveEvent(cmdCatEvent) THEN cmdCatEvent
     ELSE IF HaveEvent(cmdEvent) THEN cmdEvent
     ELSE eventCommand

dispatchEvent(cmdName) ==
  LET cmdCatEvent == "redis.:" \o CommandCategoryName(cmdName)
      cmdEvent == "redis." \o cmdName
  IN IF HaveEvent(cmdEvent) THEN cmdEvent
     ELSE IF HaveEvent(cmdCatEvent) THEN cmdCatEvent
     ELSE eventCommand

InOnEvent(at) == Len(ctl) > 0 /\ Top.k = "onEvent" /\ Top.at = at

\* redcon hands a command to the handler: onEvent up to the call of OnInit
onEvent(args0) ==
  /\ Idle
  /\ ctl' = <<[k |-> "onEvent", at |-> "init", cmdName |-> ToUpper(args0), inited |-> FALSE]>>
  /\ trace' = [on |-> TRUE, log |-> <<>>]
  /\ UNCHANGED <<vmvars, heap, Session, globalVar, eventQ, inEventQueue, last, dispatched, nemit>>

\* runtime.OnInit returns err: a failure is written to the connection and
\* ends the handler
onEventInit(err) ==
  /\ InOnEvent("init")
  /\ IF err # NoErr
       THEN /\ trace' = Note([op |-> "WriteError", event |-> "@init"])
            /\ ctl' = setTop(ctl, [Top EXCEPT !.at = "done"])
       ELSE /\ ctl' = setTop(ctl, [Top EXCEPT !.at = "emit", !.inited = TRUE])
            /\ UNCHANGED trace
  /\ UNCHANGED <<vmvars, heap, Session, globalVar, eventQ, inEventQueue, last, dispatched, nemit>>

\* runtime.Emit of the event chosen returns err: a failure is written to the
\* connection under the command's event name
onEventEmit(err) ==
  /\ InOnEvent("emit")
  /\ LET emitted == [trace EXCEPT !.log = Append(@, [op |-> "Emit", event |-> dispatchEvent(Top.cmdName)])]
     IN trace' = IF err # NoErr
                   THEN [emitted EXCEPT !.log = Append(@, [op |-> "WriteError", event |-> "redis." \o Top.cmdName])]
                   ELSE emitted
  /\ ctl' = setTop(ctl, [Top EXCEPT !.at = "done"])
  /\ UNCHANGED <<vmvars, heap, Session, globalVar, eventQ, inEventQueue, last, dispatched, nemit>>

\* onEvent returns to redcon
onEventReturn ==
  /\ InOnEvent("done")
  /\ ctl' = <<>>
  /\ UNCHANGED <<vmvars, heap, Session, globalVar, eventQ, inEventQueue, last, trace, dispatched, nemit>>

\* the module has rules for any of the service's events
InitSv ==
  /\ heap \in {<<[events |-> S]>> : S \in SUBSET ServiceEvents}
  /\ Stack = <<>>
  /\ Session = <<>>
  /\ globalVar = <<>>
  /\ curframe = markTop
  /\ curexcep = NewValNull
  /\ eventQ = <<>>
  /\ inEventQueue = FALSE
  /\ pc = 0
  /\ prog = NilProg
  /\ rr = NoRR
  /\ ctl = <<>>
  /\ last = NoLast
  /\ trace = [on |-> TRUE, log |-> <<>>]
  /\ dispatched = <<>>
  /\ nemit = 0

NextSv ==
  \/ \E args0 \in {"hget", "HGET", "get", "SET"} : onEvent(args0)
  \/ \E err \in IntrinsicErrs : onEventInit(err)
  \/ \E err \in IntrinsicErrs : onEventEmit(err)
  \/ onEventReturn

SpecSv == InitSv /\ [][NextSv]_vars

\* the events emitted and the errors written since the command arrived
Emitted == SelectSeq(trace.log, LAMBDA x : x.op = "Emit")
Written == SelectSeq(trace.log, LAMBDA x : x.op = "WriteError")

\* C36: when onEvent is about to return, a successful OnInit has been
\* followed by exactly one emitted event, the command's event if the module
\* has it, else the category's event if the module has it, else redis.*;
\* a failed OnInit by no event and an error written to the connection; and
\* no more than one event is emitted at any point of the handler.
C36_OneEvent ==
  (Len(ctl) > 0 /\ Top.k = "onEvent") =>
    /\ Len(Emitted) <= 1
    /\ Top.at = "done" =>
         IF Top.inited
           THEN /\ Len(Emitted) = 1
                /\ LET c == Top.cmdName
                       cat == IF c = "HGET" THEN "redis.:hash" ELSE "redis.:string"
                       have == heap[1].events
                   IN Emitted[1].event =
                        IF ("redis." \o c) \in have THEN "redis." \o c
                        ELSE IF cat \in have THEN cat
                        ELSE "redis.*"
           ELSE Len(Emitted) = 0 /\ Len(Written) = 1

\* a lower-case hget has been served by the category's rule of a module
\* that has the category's and the wildcard's rules but not the command's
C36_Witness ==
  /\ InOnEvent("done") /\ Top.inited /\ Top.cmdName = "HGET"
  /\ heap[1].events = {"redis.:hash", eventCommand}
  /\ Len(Emitted) = 1 /\ Emitted[1].event = "redis.:hash"

-----------------------------------------------------------------------------
(* q::slice, checked under SpecSl *)

\* List.At: Go's index of the list's data, out of its range a run-time panic
InRange(list, i) == 0 <= i /\ i < Len(list.data)

InSlice == Len(ctl) > 0 /\ Top.k = "qSlice"

\* qSlice up to its loop: the arguments in Stack are the list and one to
\* three ints (the prototype checked by info.Check); end is cut to the
\* length of the list and start to end
qSlice ==
  /\ Idle /\ last = NoLast
  /\ LET size == Len(Stack)
         list == Stack[1]
         start0 == Stack[2].i
         end0 == IF size >= 3 THEN Stack[3].i ELSE Len(list.data)
         step == IF size >= 4 THEN Stack[4].i ELSE 1
         end == IF end0 >= Len(list.data) THEN Len(list.data) ELSE end0
         start == IF start0 > end THEN end ELSE start0
     IN ctl' = <<[k |-> "qSlice", start |-> start, end |-> end, step |-> step, o |-> <<>>]>>
  /\ UNCHANGED <<vmvars, heap, Session, globalVar, eventQ, inEventQueue, last, trace, dispatched, nemit>>

\* one turn of the loop: the element at start is added to the result and
\* start moves by step
qSliceLoop ==
  /\ InSlice /\ Top.start < Top.end
  /\ Len(Top.o) < MaxOut
  /\ IF InRange(Stack[1], Top.start)
       THEN ctl' = setTop(ctl, [Top EXCEPT !.o = Append(@, At(Stack[1].data, Top.start)),
                                           !.start = @ + Top.step])
       ELSE ctl' = <<[k |-> "panic"]>>
  /\ UNCHANGED <<vmvars, heap, Session, globalVar, eventQ, inEventQueue, last, trace, dispatched, nemit>>

\* the loop has ended: the result is returned
qSliceReturn ==
  /\ InSlice /\ ~(Top.start < Top.end)
  /\ last' = [NoLast EXCEPT !.fn = "q::slice", !.v = [t |-> "list", data |-> Top.o]]
  /\ ctl' = <<>>
  /\ UNCHANGED <<vmvars, heap, Session, globalVar, eventQ, inEventQueue, trace, dispatched, nemit>>

\* the arguments are a list of at most MaxLen ints, a start and an end from
\* below 0 to beyond the list, and a step from below 0 to 2
InitSl ==
  /\ LET lists == UNION {[1..n -> {NewValInt64(1), NewValInt64(2)}] : n \in 0..MaxLen}
         pos == {NewValInt64(i) : i \in (-1)..(MaxLen + 1)}
         steps == {NewValInt64(i) : i \in (-1)..2}
     IN Stack \in {<<[t |-> "list", data |-> d], a>> : d \in lists, a \in pos}
                  \cup {<<[t |-> "list", data |-> d], a, b>> : d \in lists, a \in pos, b \in pos}
                  \cup {<<[t |-> "list", data |-> d], a, b, c>> : d \in lists, a \in pos, b \in pos, c \in steps}
  /\ Session = <<>>
  /\ globalVar = <<>>
  /\ curframe = markTop
  /\ curexcep = NewValNull
  /\ eventQ = <<>>
  /\ inEventQueue = FALSE
  /\ pc = 0
  /\ prog = NilProg
  /\ rr = NoRR
  /\ ctl = <<>>
  /\ last = NoLast
  /\ trace = [on |-> FALSE, log |-> <<>>]
  /\ dispatched = <<>>
  /\ nemit = 0
  /\ heap = <<>>

NextSl ==
  \/ qSlice
  \/ qSliceLoop
  \/ qSliceReturn

SpecSl == InitSl /\ [][NextSl]_vars

\* C37: q::slice terminates and returns a list whatever its integer
\* arguments: no turn of its loop panics, and every turn that does not end
\* the call brings start closer to end.
C37_SliceTerminates ==
  [][(InSlice /\ ctl' # ctl) =>
       /\ ctl' # <<[k |-> "panic"]>>
       /\ ctl' # <<>> => ctl'[1].end - ctl'[1].start < Top.end - Top.start]_vars

-----------------------------------------------------------------------------
(* Two evaluators sharing a module, checked under SpecGl *)

(* The variables of the evaluator are those of the first evaluator.  Of    *)
(* the second only its position is kept, in heap[1].at: idle, or within    *)
(* EvalGlobal; the values its global program sets are inputs.  Each        *)
(* instruction reads and writes the store in one step.                     *)

Other(at) == heap[1].at = at

\* EvalGlobal of the second evaluator up to its first program: the store of
\* the shared module is reset
otherEvalGlobal ==
  /\ Other("idle")
  /\ globalVar' = <<>>
  /\ heap' = <<[heap[1] EXCEPT !.at = "global"]>>
  /\ UNCHANGED <<vmvars, qvars, Session, inEventQueue, ctl, last, dispatched>>

\* setGlobal of v, executed by the global program of the second evaluator
otherSetGlobal(v) ==
  /\ Other("global") /\ Len(globalVar) < MaxStore
  /\ globalVar' = add(globalVar, v).g
  /\ UNCHANGED <<vmvars, qvars, Session, inEventQueue, ctl, last, dispatched, heap>>

\* storeGlobal of v at i, executed by the global program of the second
\* evaluator
otherStoreGlobal(i, v) ==
  /\ Other("global")
  /\ globalVar' = StoreGlobal(globalVar, i, v).g
  /\ UNCHANGED <<vmvars, qvars, Session, inEventQueue, ctl, last, dispatched, heap>>

\* EvalGlobal of the second evaluator returns
otherReturn ==
  /\ Other("global")
  /\ heap' = <<[heap[1] EXCEPT !.at = "idle"]>>
  /\ UNCHANGED <<vmvars, qvars, Session, globalVar, inEventQueue, ctl, last, dispatched>>

InitGl ==
  /\ heap = <<[k |-> "evaluator", at |-> "idle"]>>
  /\ Stack = <<>>
  /\ Session = <<>>
  /\ globalVar = <<>>
  /\ curframe = markTop
  /\ curexcep = NewValNull
  /\ eventQ = <<>>
  /\ inEventQueue = FALSE
  /\ pc = 0
  /\ prog = NilProg
  /\ rr = NoRR
  /\ ctl = <<>>
  /\ last = NoLast
  /\ trace = [on |-> FALSE, log |-> <<>>]
  /\ dispatched = <<>>
  /\ nemit = 0

\* the second evaluator runs EvalGlobal any number of times, its global
\* program setting and storing ints and strings; the first runs the rule of
\* "child", which starts by loadGlobal 0 and goes on with loadGlobal 0, pop,
\* and return
NextGl ==
  \/ otherEvalGlobal
  \/ \E v \in {NewValInt64(7), NewValStr("a")} : otherSetGlobal(v)
  \/ \E i \in 0..(MaxStore - 1), v \in {NewValInt64(7), NewValStr("a")} : otherStoreGlobal(i, v)
  \/ otherReturn
  \/ Eval("child")
  \/ runRuleImpl
  \/ bcLoadGlobal(0)
  \/ pc > 0 /\ bcPop
  \/ pc > 0 /\ bcReturn
  \/ runRuleImplDone
  \/ runRuleImplFail
  \/ drainEventQueue
  \/ drainEventQueueDone
  \/ Return

SpecGl == InitGl /\ [][NextGl]_vars

\* the rule of the first evaluator has executed its loadGlobal 0 at pc 0
HasRead0 == Len(ctl) > 0 /\ Top.k = "entry" /\ Top.at = "run" /\ prog = "K" /\ pc > 0

\* C38: once the first evaluator has loaded the global at index 0, no
\* loadGlobal 0 of the same run fails, whatever the second evaluator does
\* in between.
C38_StaysReadable ==
  HasRead0 => ~(rr # NoRR /\ rr.rstate = rstateInterrupt)

-----------------------------------------------------------------------------
(* servicePool, checked under SpecPl *)

(* heap[1] is the pool: its idle handlers, its maxSize, the goroutine      *)
(* holding its mutex (0: none) and the number of handlers created so far.  *)
(* heap[1 + t] is goroutine t of the service: where it is, the handler it  *)
(* holds (0: none) and what its last put returned.  A goroutine serves a   *)
(* connection as the service does: it gets a handler from the pool,        *)
(* creates one when the pool has none, and puts it back.                   *)

Goroutines == 1..2

Pool == heap[1]
Go(t) == heap[1 + t]

\* the state after goroutine t has moved to record g and the pool to p
PoolStep(t, g, p) == heap' = [heap EXCEPT ![1] = p, ![1 + t] = g]

\* servicePool.get up to s.Lock(): the goroutine has the mutex
get(t) ==
  /\ Go(t).at = "idle" /\ Go(t).h = 0 /\ Pool.lock = 0
  /\ PoolStep(t, [Go(t) EXCEPT !.at = "get"], [Pool EXCEPT !.lock = t])
  /\ UNCHANGED <<vmvars, qvars, Session, globalVar, inEventQueue, ctl, last, dispatched>>

\* the rest of get: nil of an empty pool, else the last idle handler, which
\* leaves the pool; the deferred Unlock
getReturn(t) ==
  /\ Go(t).at = "get"
  /\ LET idleSize == Len(Pool.idle)
     IN IF idleSize = 0
        THEN PoolStep(t, [Go(t) EXCEPT !.at = "got", !.h = 0], [Pool EXCEPT !.lock = 0])
        ELSE PoolStep(t, [Go(t) EXCEPT !.at = "got", !.h = Pool.idle[idleSize]],
                      [Pool EXCEPT !.lock = 0, !.idle = SubSeq(@, 1, idleSize - 1)])
  /\ UNCHANGED <<vmvars, qvars, Session, globalVar, inEventQueue, ctl, last, dispatched>>

\* get has returned nil: the goroutine creates a handler
newServiceHandler(t) ==
  /\ Go(t).at = "got" /\ Go(t).h = 0 /\ Pool.made < MaxHandlers
  /\ PoolStep(t, [Go(t) EXCEPT !.at = "serve", !.h = Pool.made + 1], [Pool EXCEPT !.made = @ + 1])
  /\ UNCHANGED <<vmvars, qvars, Session, globalVar, inEventQueue, ctl, last, dispatched>>

\* get has returned a handler
reuseHandler(t) ==
  /\ Go(t).at = "got" /\ Go(t).h # 0
  /\ PoolStep(t, [Go(t) EXCEPT !.at = "serve"], Pool)
  /\ UNCHANGED <<vmvars, qvars, Session, globalVar, inEventQueue, ctl, last, dispatched>>

\* servicePool.put up to s.Lock()
put(t) ==
  /\ Go(t).at = "serve" /\ Pool.lock = 0
  /\ PoolStep(t, [Go(t) EXCEPT !.at = "put"], [Pool EXCEPT !.lock = t])
  /\ UNCHANGED <<vmvars, qvars, Session, globalVar, inEventQueue, ctl, last, dispatched>>

\* the rest of put: the handler is refused and dropped when one more idle
\* handler would reach maxSize, else it is appended; the deferred Unlock
putReturn(t) ==
  /\ Go(t).at = "put"
  /\ IF Len(Pool.idle) + 1 >= Pool.maxSize
       THEN PoolStep(t, [Go(t) EXCEPT !.at = "idle", !.h = 0, !.ret = FALSE], [Pool EXCEPT !.lock = 0])
       ELSE PoolStep(t, [Go(t) EXCEPT !.at = "idle", !.h = 0, !.ret = TRUE],
                     [Pool EXCEPT !.lock = 0, !.idle = Append(@, Go(t).h)])
  /\ UNCHANGED <<vmvars, qvars, Session, globalVar, inEventQueue, ctl, last, dispatched>>

\* newServicePool with a cache size of 1..MaxPool, and the goroutines idle
InitPl ==
  /\ heap \in {<<[k |-> "servicePool", idle |-> <<>>, maxSize |-> n, lock |-> 0, made |-> 0]>>
               \o [t \in Goroutines |-> [k |-> "goroutine", at |-> "idle", h |-> 0, ret |-> FALSE]] :
               n \in 1..MaxPool}
  /\ Stack = <<>>
  /\ Session = <<>>
  /\ globalVar = <<>>
  /\ curframe = markTop
  /\ curexcep = NewValNull
  /\ eventQ = <<>>
  /\ inEventQueue = FALSE
  /\ pc = 0
  /\ prog = NilProg
  /\ rr = NoRR
  /\ ctl = <<>>
  /\ last = NoLast
  /\ trace = [on |-> FALSE, log |-> <<>>]
  /\ dispatched = <<>>
  /\ nemit = 0

NextPl ==
  \/ \E t \in Goroutines : get(t)
  \/ \E t \in Goroutines : getReturn(t)
  \/ \E t \in Goroutines : newServiceHandler(t)
  \/ \E t \in Goroutines : reuseHandler(t)
  \/ \E t \in Goroutines : put(t)
  \/ \E t \in Goroutines : putReturn(t)

SpecPl == InitPl /\ [][NextPl]_vars

\* the places handler h is at: idle in the pool, or held by a goroutine
PlacesOf(h) ==
  Cardinality({i \in 1..Len(Pool.idle) : Pool.idle[i] = h})
  + Cardinality({t \in Goroutines : Go(t).h = h})

\* C39: a put that finds fewer than maxSize idle handlers stores its handler
\* and returns true; whatever the interleaving of gets and puts, no more
\* than maxSize handlers are idle and no handler is both idle and held, or
\* held by two goroutines.
C39_Pool ==
  [][/\ \A t \in Goroutines :
          (Go(t).at = "put" /\ Go(t)'.at = "idle" /\ Len(Pool.idle) < Pool.maxSize) =>
             /\ Pool'.idle = Append(Pool.idle, Go(t).h)
             /\ Go(t)'.ret = TRUE
     /\ Len(Pool'.idle) <= Pool'.maxSize
     /\ \A h \in 1..MaxHandlers : PlacesOf(h)' <= 1]_vars

-----------------------------------------------------------------------------
(* ReadableStream, checked under SpecRs *)

(* heap[1] is the ReadableStream: cacheBuf, hasCache, closed and Stream.   *)
(* A Stream is a reader the host made (id 1..MaxStreams, the data still to *)
(* be read), a reader over bytes or the reader at end of file (id 0).      *)
(* heap[2] is the host: the number of times Close was called on each of    *)
(* its readers, and the number of readers it made.                         *)

Datas == {<<>>, <<104>>, <<104, 105>>}

eofReadCloser == [id |-> 0, data |-> <<>>]
neweofByteReadCloser(b) == [id |-> 0, data |-> b]

\* Stream.Close(): counted for the readers of the host
closeStream(host, s) ==
  IF s.id = 0 THEN host ELSE [host EXCEPT !.closes[s.id] = @ + 1]

RStep(h, host) == heap' = <<h, host>>

\* ReadableStream.Close: of a closed stream nothing; else the cache becomes
\* the empty buffer and the reader is closed and replaced by end of file
CloseRec(h, host) ==
  IF h.closed
  THEN [h |-> h, host |-> host]
  ELSE [h |-> [h EXCEPT !.cacheBuf = <<>>, !.hasCache = TRUE, !.closed = TRUE, !.Stream = eofReadCloser],
        host |-> closeStream(host, h.Stream)]

Close ==
  /\ Idle
  /\ LET c == CloseRec(heap[1], heap[2]) IN RStep(c.h, c.host)
  /\ last' = [NoLast EXCEPT !.fn = "Close"]
  /\ UNCHANGED <<vmvars, qvars, Session, globalVar, inEventQueue, ctl, dispatched>>

\* ConsumeAsString: readAll answers the cache, or what io.ReadAll reads of
\* the reader (or its error err), and its deferred Close closes the stream
ConsumeAsString(err) ==
  /\ Idle
  /\ LET h == heap[1]
         c == CloseRec(h, heap[2])
     IN /\ RStep(c.h, c.host)
        /\ last' = IF h.hasCache THEN [NoLast EXCEPT !.fn = "ConsumeAsString", !.v = h.cacheBuf]
                   ELSE IF err # NoErr THEN [NoLast EXCEPT !.fn = "ConsumeAsString", !.v = <<>>, !.err = err]
                   ELSE [NoLast EXCEPT !.fn = "ConsumeAsString", !.v = h.Stream.data]
  /\ UNCHANGED <<vmvars, qvars, Session, globalVar, inEventQueue, ctl, dispatched>>

\* CacheBuffer: the cache if there is one; else what io.ReadAll reads of the
\* reader becomes the cache and the reader a reader over it, and an error
\* of io.ReadAll is returned with the reader read to the point of the error
CacheBuffer(err) ==
  /\ Idle
  /\ LET h == heap[1]
     IN IF h.hasCache
        THEN /\ last' = [NoLast EXCEPT !.fn = "CacheBuffer", !.v = h.cacheBuf]
             /\ UNCHANGED heap
        ELSE IF err # NoErr
        THEN /\ last' = [NoLast EXCEPT !.fn = "CacheBuffer", !.v = <<>>, !.err = err]
             /\ RStep([h EXCEPT !.Stream.data = <<>>], heap[2])
        ELSE /\ last' = [NoLast EXCEPT !.fn = "CacheBuffer", !.v = h.Stream.data]
             /\ RStep([h EXCEPT !.cacheBuf = h.Stream.data, !.hasCache = TRUE,
                                !.Stream = neweofByteReadCloser(h.Stream.data)], heap[2])
  /\ UNCHANGED <<vmvars, qvars, Session, globalVar, inEventQueue, ctl, dispatched>>

\* SetStream of a reader the host makes, with data d to be read
SetStream(d) ==
  /\ Idle /\ heap[2].made < MaxStreams
  /\ RStep([heap[1] EXCEPT !.cacheBuf = <<>>, !.hasCache = FALSE,
                           !.Stream = [id |-> heap[2].made + 1, data |-> d]],
           [heap[2] EXCEPT !.made = @ + 1])
  /\ last' = [NoLast EXCEPT !.fn = "SetStream"]
  /\ UNCHANGED <<vmvars, qvars, Session, globalVar, inEventQueue, ctl, dispatched>>

\* SetBuffer(b), and SetString of the string of bytes b
SetBuffer(b) ==
  /\ Idle
  /\ RStep([heap[1] EXCEPT !.cacheBuf = b, !.hasCache = TRUE, !.Stream = neweofByteReadCloser(b)],
           heap[2])
  /\ last' = [NoLast EXCEPT !.fn = "SetBuffer"]
  /\ UNCHANGED <<vmvars, qvars, Session, globalVar, inEventQueue, ctl, dispatched>>

\* NewReadableStreamFromBuffer (and FromString) of any data, or
\* NewReadableStreamFromStream of the first reader of the host
InitRs ==
  /\ heap \in {<<[k |-> "ReadableStream", cacheBuf |-> b, hasCache |-> TRUE, closed |-> FALSE,
                  Stream |-> neweofByteReadCloser(b)],
                 [k |-> "host", closes |-> [i \in 1..MaxStreams |-> 0], made |-> 0]>> : b \in Datas}
          \cup {<<[k |-> "ReadableStream", cacheBuf |-> <<>>, hasCache |-> FALSE, closed |-> FALSE,
                  Stream |-> [id |-> 1, data |-> d]],
                 [k |-> "host", closes |-> [i \in 1..MaxStreams |-> 0], made |-> 1]>> : d \in Datas}
  /\ Stack = <<>>
  /\ Session = <<>>
  /\ globalVar = <<>>
  /\ curframe = markTop
  /\ curexcep = NewValNull
  /\ eventQ = <<>>
  /\ inEventQueue = FALSE
  /\ pc = 0
  /\ prog = NilProg
  /\ rr = NoRR
  /\ ctl = <<>>
  /\ last = NoLast
  /\ trace = [on |-> FALSE, log |-> <<>>]
  /\ dispatched = <<>>
  /\ nemit = 0

NextRs ==
  \/ Close
  \/ \E err \in IntrinsicErrs : ConsumeAsString(err)
  \/ \E err \in IntrinsicErrs : CacheBuffer(err)
  \/ \E d \in Datas : SetStream(d)
  \/ \E b \in Datas : SetBuffer(b)

SpecRs == InitRs /\ [][NextRs]_vars

IsClose(h) == h.closed
HasCache(h) == h.hasCache
ByteLength(h) == IF h.hasCache THEN Len(h.cacheBuf) ELSE -1

\* C40: a closed ReadableStream has a cache and its byte length is 0, and
\* Close has been called at most once on each reader it was given.
C40_ClosedIsEmpty ==
  /\ IsClose(heap[1]) => HasCache(heap[1]) /\ ByteLength(heap[1]) = 0
  /\ \A i \in 1..MaxStreams : heap[2].closes[i] <= 1

====
